---- MODULE Spec2Model ----
(***************************************************************************)
(* A model of PondTV's catalog store (DatabaseManager), library scanner    *)
(* (MediaScanner), playlist selector (PlaylistEngine) and the status       *)
(* policy of the playback orchestrator (PondTVApp).                        *)
(*                                                                         *)
(* Python values are encoded as follows.  A dict is a function whose       *)
(* domain is its set of keys; a list is a sequence; None is the integer    *)
(* -1 where it stands for an absent resume position (every real position   *)
(* is >= 0).  A file is a record [exists, lines]; a YAML document is the   *)
(* sequence of its lines, each line a record of one shape.                 *)
(***************************************************************************)
EXTENDS Integers, Sequences, FiniteSets, TLC

(***************************************************************************)
(* Python values                                                           *)
(***************************************************************************)
None == -1

EmptyDict == << >>

\* yaml.safe_load of an empty stream returns None: a document of its own.
NoneDoc == [none_document |-> TRUE]

\* A document whose root is a list, not a mapping.
ListRoot == [list_root |-> TRUE]

IsDict(d) == d # NoneDoc /\ d # ListRoot

\* dict.get(key, default)
Get(d, k, default) == IF k \in DOMAIN d THEN d[k] ELSE default

\* d[k] = v on a dict
Put(d, k, v) == [x \in (DOMAIN d) \cup {k} |-> IF x = k THEN v ELSE d[x]]

(***************************************************************************)
(* YAML: yaml.dump(data, f, default_flow_style=False, indent=2) and        *)
(* yaml.safe_load(f).  A line is [ind, dash, key, kind, s, i]: the column  *)
(* of its key, whether "- " opens a list item before the key, the key, and *)
(* the value: a block that follows ("block"), a string, an integer, null,  *)
(* an empty list "[]", an empty mapping "{}", or text that is not YAML.    *)
(***************************************************************************)
Line(ind, dash, key, kind, s, i) ==
    [ind |-> ind, dash |-> dash, key |-> key, kind |-> kind, s |-> s, i |-> i]

\* yaml.dump sorts the keys of a mapping.
KeyOrder == <<"episode", "episodes", "filepath", "movies", "resume_position",
              "season", "series", "series_name", "status", "title", "year">>

SeqKeys == {"episodes", "movies", "series"}
StrKeys == {"filepath", "series_name", "status", "title"}

SortedKeys(m) == SelectSeq(KeyOrder, LAMBDA k : k \in DOMAIN m)

RECURSIVE DumpKeys(_, _, _, _)
RECURSIVE DumpSeq(_, _)
DumpKeys(m, keys, ind, dash) ==
    IF keys = << >> THEN << >>
    ELSE LET k == Head(keys)
             v == m[k]
             here ==
                 IF k \in SeqKeys
                 THEN IF v = << >>
                      THEN << Line(ind, dash, k, "empty_seq", "", 0) >>
                      ELSE << Line(ind, dash, k, "block", "", 0) >> \o DumpSeq(v, ind)
                 ELSE IF k \in StrKeys
                      THEN << Line(ind, dash, k, "str", v, 0) >>
                      ELSE IF v = None
                           THEN << Line(ind, dash, k, "null", "", 0) >>
                           ELSE << Line(ind, dash, k, "int", "", v) >>
         IN  here \o DumpKeys(m, Tail(keys), ind, FALSE)

\* A list inside a mapping is not indented: the dash stands in the column of
\* the parent's key and the item's keys two columns further.
DumpSeq(items, ind) ==
    IF items = << >> THEN << >>
    ELSE DumpKeys(Head(items), SortedKeys(Head(items)), ind + 2, TRUE)
             \o DumpSeq(Tail(items), ind)

Dump(data) ==
    IF data = EmptyDict
    THEN << Line(0, FALSE, "", "empty_map", "", 0) >>
    ELSE DumpKeys(data, SortedKeys(data), 0, FALSE)

\* ScalarOf reading null back as 0.
ScalarOfNullAsZero(l) ==
    CASE l.kind = "str" -> l.s
      [] l.kind = "int" -> l.i
      [] l.kind = "null" -> 0
      [] OTHER -> << >>

ScalarOf(l) ==
    CASE l.kind = "str" -> l.s
      [] l.kind = "int" -> l.i
      [] l.kind = "null" -> None
      [] OTHER -> << >>

RECURSIVE ParseMap(_, _, _, _, _)
RECURSIVE ParseSeq(_, _, _, _)
\* Both return [val, pos]: the value read and the first line not consumed.
ParseMap(ls, pos, ind, first, acc) ==
    IF pos > Len(ls) \/ ls[pos].ind # ind \/ (ls[pos].dash /\ ~first)
    THEN [val |-> acc, pos |-> pos]
    ELSE LET l == ls[pos] IN
         IF l.kind = "block"
         THEN LET r == ParseSeq(ls, pos + 1, ind + 2, << >>)
              IN  ParseMap(ls, r.pos, ind, FALSE, Put(acc, l.key, r.val))
         ELSE ParseMap(ls, pos + 1, ind, FALSE, Put(acc, l.key, ScalarOf(l)))

ParseSeq(ls, pos, ind, acc) ==
    IF pos > Len(ls) \/ ls[pos].ind # ind \/ ~ls[pos].dash
    THEN [val |-> acc, pos |-> pos]
    ELSE LET r == ParseMap(ls, pos, ind, TRUE, EmptyDict)
         IN  ParseSeq(ls, r.pos, ind, Append(acc, r.val))

\* yaml.safe_load raises on text that is not YAML.
SafeLoadRaises(ls) == \E n \in 1..Len(ls) : ls[n].kind = "garbage"

SafeLoad(ls) ==
    IF ls = << >> THEN NoneDoc
    ELSE IF ls[1].kind = "empty_map" THEN EmptyDict
    ELSE IF ls[1].dash /\ ls[1].ind = 0 THEN ListRoot
    ELSE ParseMap(ls, 1, 0, TRUE, EmptyDict).val

(***************************************************************************)
(* The media volume.  A file of the volume is named by its path relative   *)
(* to the volume's root.  MaxMovies and MaxEpisodes bound how many movie   *)
(* files and how many episode files of series "X" can exist.               *)
(***************************************************************************)
MaxMovies == 1
MaxEpisodes == 2
MaxResume == 1

Movies == 1..MaxMovies
Episodes == 1..MaxEpisodes

MoviePath(n) == IF n = 1 THEN "Movies/A (1999).mkv"
                ELSE IF n = 2 THEN "Movies/B (2004).mkv"
                ELSE IF n = 3 THEN "Movies/C (2010).mkv"
                ELSE "Movies/D (2015).mkv"

EpisodePath(n) == IF n = 1 THEN "TV_Shows/X/Season 1/X.S01E01.mp4"
                  ELSE IF n = 2 THEN "TV_Shows/X/Season 1/X.S01E02.mp4"
                  ELSE IF n = 3 THEN "TV_Shows/X/Season 1/X.S01E03.mp4"
                  ELSE "TV_Shows/X/Season 1/X.S01E04.mp4"

OtherShowPath == "TV_Shows/Y/Season 1/Y.S01E01.mp4"

\* A video file under Movies whose name has no "(year)".
UnmatchedPath == "Movies/Clip.mkv"

\* A path no file of the volume has.
GonePath == "Movies/Gone (2000).mkv"

MoviePaths == {MoviePath(n) : n \in Movies}
EpisodePaths == {EpisodePath(n) : n \in Episodes}
VolumePaths == MoviePaths \cup EpisodePaths \cup {OtherShowPath, UnmatchedPath}

\* What the scanner reads off a path: the directory it lists the file in, the
\* series directory, whether the name ends with one of video_formats, and the
\* groups of movie_regex or series_regex when the name matches.
FileInfo(p) ==
    IF p \in MoviePaths
    THEN LET n == CHOOSE n \in Movies : MoviePath(n) = p
         IN  [top |-> "Movies", series_name |-> "", video |-> TRUE, match |-> TRUE,
              title |-> IF n = 1 THEN "A" ELSE IF n = 2 THEN "B"
                        ELSE IF n = 3 THEN "C" ELSE "D",
              year |-> IF n = 1 THEN 1999 ELSE IF n = 2 THEN 2004
                       ELSE IF n = 3 THEN 2010 ELSE 2015,
              season |-> 0, episode |-> 0]
    ELSE IF p \in EpisodePaths
    THEN [top |-> "TV_Shows", series_name |-> "X", video |-> TRUE, match |-> TRUE,
          title |-> "", year |-> 0, season |-> 1,
          episode |-> CHOOSE n \in Episodes : EpisodePath(n) = p]
    ELSE IF p = OtherShowPath
    THEN [top |-> "TV_Shows", series_name |-> "Y", video |-> TRUE, match |-> TRUE,
          title |-> "", year |-> 0, season |-> 1, episode |-> 1]
    ELSE [top |-> "Movies", series_name |-> "", video |-> TRUE, match |-> FALSE,
          title |-> "", year |-> 0, season |-> 0, episode |-> 0]

(***************************************************************************)
(* Files of the catalog store                                              *)
(***************************************************************************)
NoFile == [exists |-> FALSE, lines |-> << >>]
FileOf(ls) == [exists |-> TRUE, lines |-> ls]

VARIABLES
    db_file,    \* the canonical catalog file, db_path
    tmp_file,   \* its sibling db_path + '.tmp'
    pc,         \* where the store's caller stands
    frame,      \* the call in progress: who called save, with what
    ret,        \* the last call that returned, and what it returned
    saved,      \* the data of the last save that succeeded, if any
    disk,               \* the paths of the files on the media volume
    current_playlist,   \* PondTVApp.current_playlist
    app,        \* PondTVApp: state, running, current_index, where run() stands
    player,     \* the PlayerController and the engine behind it
    input,      \* the InputHandler and the input_queue it fills
    drive,      \* whether the media volume is connected
    threads,    \* the lock of the DatabaseManager and the threads calling it
    legacy,     \* the files and the call of pondtv/database_manager.py
    scanner     \* the call of pondtv/media_scanner.py in progress

storeVars == <<db_file, tmp_file, pc, frame, ret, saved>>
libraryVars == <<disk, current_playlist>>
appVars == <<app, player, input, drive>>
vars == <<db_file, tmp_file, pc, frame, ret, saved, disk, current_playlist,
          app, player, input, drive, threads, legacy, scanner>>

\* `listed` is the set of files a scan listed; `rescan` says that the scan runs
\* right after a scan that persisted its catalog and listed the same files.
NoFrame == [caller |-> "none", data |-> EmptyDict, pre |-> NoFile, path |-> "",
            raised_at |-> "", listed |-> {}, rescan |-> FALSE]
NoRet == [op |-> "none", ok |-> FALSE, raised |-> FALSE, data |-> EmptyDict,
          path |-> "", raised_at |-> "", remove_raised |-> FALSE, listed |-> {}]

\* PondTVApp after __init__: state STARTING, running, index 0.  `at` is the
\* statement run() stands at; `polls` is the parity of the polls for a drive.
NewApp == [state |-> "starting", running |-> TRUE, current_index |-> 0,
           at |-> "run", current_item |-> EmptyDict,
           playback_interrupted |-> FALSE, is_guide_visible |-> FALSE,
           guide_selection_index |-> 0, polls |-> 0]

\* A PlayerController after __init__: nothing is playing.  `time_pos` is the
\* position the engine reached in the file it played last, `eof_reached` and
\* `aborted` say that it reached the end of that file or gave it up.
\* `pause` and `volume` are the engine's properties, and `alive` holds the
\* places of the code whose engine instance has not been terminated, and
\* `played` is what the last play() returned.  `core` is what the engine
\* does (idle, playing, or ended with the file kept open), `seen_pos` is the
\* position of the last time-pos notification, and `events` holds the
\* notification the engine's event thread is about to hand to its handler.
NewPlayer == [is_playing |-> FALSE, time_pos |-> 0, eof_reached |-> FALSE,
              aborted |-> FALSE, pause |-> FALSE, volume |-> 100, alive |-> {},
              played |-> FALSE, core |-> "idle", seen_pos |-> 0,
              events |-> << >>]

\* No InputHandler thread yet, and an empty input_queue.  `produced` counts
\* the actions put on the queue, `handled` is the number of the last one got
\* and `action` is that action.
NoInput == [queue |-> << >>, produced |-> 0, handled |-> 0, action |-> "",
            listening |-> FALSE]

\* The DatabaseManager's lock is free and no thread is calling it.
NoThreads == [lock |-> "none", call |-> << >>]

\* The DatabaseManager of pondtv/database_manager.py before any call: no
\* file, no volume looked at.
NoFileText == [kind |-> "none"]
NoLegacy == [pc |-> "none", db_path |-> [exists |-> FALSE, text |-> NoFileText],
             backup_path |-> [exists |-> FALSE, text |-> NoFileText],
             media_path |-> {}, data |-> [type |-> "NoneType"],
             valid |-> [called |-> FALSE, raises |-> FALSE, val |-> FALSE]]

\* No call of the MediaScanner of pondtv/media_scanner.py.
NoScanner == [call |-> "none", done |-> FALSE]

\* The orchestrator is constructed and run() has not been called.
NoApp == app = NewApp /\ player = NewPlayer /\ input = NoInput /\ drive = TRUE

(***************************************************************************)
(* DatabaseManager.load                                                    *)
(***************************************************************************)
\* Load without its "except Exception" clause.
LoadUncaught(file) ==
    IF ~file.exists THEN [raised |-> FALSE, val |-> EmptyDict]
    ELSE IF SafeLoadRaises(file.lines) THEN [raised |-> TRUE, val |-> EmptyDict]
    ELSE LET data == SafeLoad(file.lines)
         IN  [raised |-> FALSE, val |-> IF data # NoneDoc THEN data ELSE EmptyDict]

\* What load() returns for the canonical file as it is: [raised, val].
\* FileNotFoundError and every other exception are caught and give {}; a
\* None document gives {}; any other parsed document is returned as it is.
Load(file) ==
    IF ~file.exists THEN [raised |-> FALSE, val |-> EmptyDict]
    ELSE IF SafeLoadRaises(file.lines) THEN [raised |-> FALSE, val |-> EmptyDict]
    ELSE LET data == SafeLoad(file.lines)
         IN  [raised |-> FALSE, val |-> IF data # NoneDoc THEN data ELSE EmptyDict]

\* A call of load(): one read of the canonical file.
LoadCall ==
    /\ pc = "idle"
    /\ LET r == Load(db_file)
       IN  ret' = [NoRet EXCEPT !.op = "load", !.raised = r.raised, !.data = r.val]
    /\ UNCHANGED <<db_file, tmp_file, pc, frame, saved>>

(***************************************************************************)
(* DatabaseManager.save, one action per file operation.  pc is             *)
(*   "save_open"    before open(tmp_path, 'w'),                            *)
(*   "save_write"   while yaml.dump writes the open temp file,             *)
(*   "save_rename"  before os.rename, the temp file written and closed,    *)
(*   "save_except"  in the except clause.                                  *)
(***************************************************************************)
InSave == pc \in {"save_open", "save_write", "save_rename", "save_except"}

\* save(data) is entered by `caller`.
EnterSave(caller, data, path) ==
    /\ pc' = "save_open"
    /\ frame' = [caller |-> caller, data |-> data, pre |-> db_file, path |-> path,
                 raised_at |-> "",
                 listed |-> IF caller \in {"scan", "initialize"} THEN disk ELSE {},
                 rescan |-> /\ caller = "scan"
                            /\ ret.op = "scan" /\ ret.ok /\ ret.listed = disk]
    /\ ret' = NoRet

\* save returns `ok` and so does its caller (update_item_status returns
\* save's result, scan returns after it); initialize_media_components goes on
\* to load what its scan saved.
ReturnFromSave(ok, remove_raised) ==
    /\ pc' = IF frame.caller = "initialize" THEN "initialize_load" ELSE "idle"
    /\ frame' = NoFrame
    /\ ret' = [NoRet EXCEPT !.op = frame.caller, !.ok = ok, !.path = frame.path,
                            !.raised_at = frame.raised_at,
                            !.remove_raised = remove_raised,
                            !.listed = frame.listed]

\* A direct call of save(data), as the module's own test script makes.
SaveCall(data) ==
    /\ pc = "idle"
    /\ EnterSave("save", data, "")
    /\ UNCHANGED <<db_file, tmp_file, saved>>

\* open(tmp_path, 'w') creates the temp file or truncates a stale one.
SaveOpen ==
    /\ pc = "save_open"
    /\ tmp_file' = FileOf(<< >>)
    /\ pc' = "save_write"
    /\ UNCHANGED <<db_file, frame, ret, saved>>

SaveOpenRaises ==
    /\ pc = "save_open"
    /\ pc' = "save_except"
    /\ frame' = [frame EXCEPT !.raised_at = "open"]
    /\ UNCHANGED <<db_file, tmp_file, ret, saved>>

\* SaveWritePart with the canonical file opened for writing, not the temp file.
SaveWritePartInPlace ==
    /\ pc = "save_write"
    /\ \E n \in 1..(Len(Dump(frame.data)) - 1) :
          /\ n > Len(tmp_file.lines)
          /\ db_file' = FileOf(SubSeq(Dump(frame.data), 1, n))
    /\ UNCHANGED <<tmp_file, pc, frame, ret, saved>>

\* yaml.dump has written some, not all, of the document.
SaveWritePart ==
    /\ pc = "save_write"
    /\ \E n \in 1..(Len(Dump(frame.data)) - 1) :
          /\ n > Len(tmp_file.lines)
          /\ tmp_file' = FileOf(SubSeq(Dump(frame.data), 1, n))
    /\ UNCHANGED <<db_file, pc, frame, ret, saved>>

\* yaml.dump has written the whole document and the with block closed the file.
SaveWriteAll ==
    /\ pc = "save_write"
    /\ tmp_file' = FileOf(Dump(frame.data))
    /\ pc' = "save_rename"
    /\ UNCHANGED <<db_file, frame, ret, saved>>

\* The write raises: the with block closes the file as it is.
SaveWriteRaises ==
    /\ pc = "save_write"
    /\ pc' = "save_except"
    /\ frame' = [frame EXCEPT !.raised_at = "write"]
    /\ UNCHANGED <<db_file, tmp_file, ret, saved>>

\* os.rename(tmp_path, db_path) replaces the canonical file in one step.
SaveRename ==
    /\ pc = "save_rename"
    /\ db_file' = tmp_file
    /\ tmp_file' = NoFile
    /\ saved' = [valid |-> TRUE, data |-> frame.data]
    /\ ReturnFromSave(TRUE, FALSE)

SaveRenameRaises ==
    /\ pc = "save_rename"
    /\ pc' = "save_except"
    /\ frame' = [frame EXCEPT !.raised_at = "rename"]
    /\ UNCHANGED <<db_file, tmp_file, ret, saved>>

\* except: os.path.exists(tmp_path) is false, nothing to remove.
SaveCleanupNoTmp ==
    /\ pc = "save_except"
    /\ ~tmp_file.exists
    /\ ReturnFromSave(FALSE, FALSE)
    /\ UNCHANGED <<db_file, tmp_file, saved>>

\* SaveCleanupRemove without its os.remove.
SaveCleanupRemoveSkipped ==
    /\ pc = "save_except"
    /\ tmp_file.exists
    /\ ReturnFromSave(FALSE, FALSE)
    /\ UNCHANGED <<db_file, tmp_file, saved>>

\* except: the temp file exists and os.remove removes it.
SaveCleanupRemove ==
    /\ pc = "save_except"
    /\ tmp_file.exists
    /\ tmp_file' = NoFile
    /\ ReturnFromSave(FALSE, FALSE)
    /\ UNCHANGED <<db_file, saved>>

\* except: the temp file exists and os.remove raises; the exception is
\* passed over ("Best effort cleanup").
SaveCleanupRemoveRaises ==
    /\ pc = "save_except"
    /\ tmp_file.exists
    /\ ReturnFromSave(FALSE, TRUE)
    /\ UNCHANGED <<db_file, tmp_file, saved>>

\* The process dies inside save (power loss, kill): the files stay as they are.
Crash ==
    /\ InSave
    /\ pc' = "crashed"
    /\ UNCHANGED <<db_file, tmp_file, frame, ret, saved>>

(***************************************************************************)
(* DatabaseManager.update_item_status                                      *)
(***************************************************************************)
\* movie['status'] = status, and the resume position only when one is given.
SetStatus(e, status, resume_position) ==
    LET e1 == Put(e, "status", status)
    IN  IF resume_position # None
        THEN Put(e1, "resume_position", resume_position)
        ELSE e1

\* UpdateEntries taking the first entry, whatever its filepath.
UpdateEntriesAnyPath(items, filepath, status, resume_position) ==
    IF items = << >>
    THEN [raised |-> FALSE, found |-> FALSE, items |-> << >>]
    ELSE IF "filepath" \notin DOMAIN Head(items)
    THEN [raised |-> TRUE, found |-> FALSE, items |-> items]
    ELSE [raised |-> FALSE, found |-> TRUE,
          items |-> << SetStatus(Head(items), status, resume_position) >> \o Tail(items)]

\* The loop over a list of entries, stopping at the first whose filepath is
\* the one looked for: [raised, found, items].  entry['filepath'] raises
\* KeyError on an entry without the key.
RECURSIVE UpdateEntries(_, _, _, _)
UpdateEntries(items, filepath, status, resume_position) ==
    IF items = << >>
    THEN [raised |-> FALSE, found |-> FALSE, items |-> << >>]
    ELSE LET e == Head(items) IN
         IF "filepath" \notin DOMAIN e
         THEN [raised |-> TRUE, found |-> FALSE, items |-> items]
         ELSE IF e.filepath = filepath
         THEN [raised |-> FALSE, found |-> TRUE,
               items |-> << SetStatus(e, status, resume_position) >> \o Tail(items)]
         ELSE LET r == UpdateEntries(Tail(items), filepath, status, resume_position)
              IN  [r EXCEPT !.items = << e >> \o r.items]

\* The loop over the series and, inside it, over each one's episodes.
RECURSIVE UpdateSeries(_, _, _, _)
UpdateSeries(series, filepath, status, resume_position) ==
    IF series = << >>
    THEN [raised |-> FALSE, found |-> FALSE, items |-> << >>]
    ELSE LET s == Head(series)
             r == UpdateEntries(Get(s, "episodes", << >>), filepath, status,
                                resume_position)
         IN  IF r.raised
             THEN [raised |-> TRUE, found |-> FALSE, items |-> series]
             ELSE IF r.found
             THEN [raised |-> FALSE, found |-> TRUE,
                   items |-> << Put(s, "episodes", r.items) >> \o Tail(series)]
             ELSE LET t == UpdateSeries(Tail(series), filepath, status,
                                        resume_position)
                  IN  [t EXCEPT !.items = << s >> \o t.items]

\* The body of update_item_status up to its save: [raised, found, data].
\* db_content.get raises AttributeError when the document's root is a list.
UpdateItem(db_content, filepath, status, resume_position) ==
    IF ~IsDict(db_content)
    THEN [raised |-> TRUE, found |-> FALSE, data |-> db_content]
    ELSE LET m == UpdateEntries(Get(db_content, "movies", << >>), filepath,
                                status, resume_position)
         IN  IF m.raised
             THEN [raised |-> TRUE, found |-> FALSE, data |-> db_content]
             ELSE IF m.found
             THEN [raised |-> FALSE, found |-> TRUE,
                   data |-> Put(db_content, "movies", m.items)]
             ELSE LET s == UpdateSeries(Get(db_content, "series", << >>),
                                        filepath, status, resume_position)
                  IN  IF s.raised
                      THEN [raised |-> TRUE, found |-> FALSE, data |-> db_content]
                      ELSE IF s.found
                      THEN [raised |-> FALSE, found |-> TRUE,
                            data |-> Put(db_content, "series", s.items)]
                      ELSE [raised |-> FALSE, found |-> FALSE, data |-> db_content]

\* update_item_status(filepath, status, resume_position): load, modify, and
\* save when the item was found; False when it was not or when the body raised.
UpdateItemStatus(filepath, status, resume_position) ==
    /\ pc = "idle"
    /\ LET u == UpdateItem(Load(db_file).val, filepath, status, resume_position)
       IN  IF u.found
           THEN EnterSave("update", u.data, filepath)
           ELSE /\ ret' = [NoRet EXCEPT !.op = "update", !.ok = FALSE,
                                        !.path = filepath]
                /\ UNCHANGED <<pc, frame>>
    /\ UNCHANGED <<db_file, tmp_file, saved>>

(***************************************************************************)
(* MediaScanner.scan                                                       *)
(***************************************************************************)
\* The orders os.listdir may list a set of names in.
Orders(S) == {f \in [1..Cardinality(S) -> S] : \A i, j \in DOMAIN f : f[i] = f[j] => i = j}

\* dict.update
Update(d, u) == [k \in (DOMAIN d) \cup (DOMAIN u) |-> IF k \in DOMAIN u THEN u[k] ELSE d[k]]

RECURSIVE Flatten(_)
Flatten(ss) == IF ss = << >> THEN << >> ELSE Head(ss) \o Flatten(Tail(ss))

\* [e for s in old_db_data.get('series', []) for e in s.get('episodes', [])]
AllEpisodes(db) ==
    LET series == Get(db, "series", << >>)
    IN  Flatten([i \in 1..Len(series) |-> Get(series[i], "episodes", << >>)])

\* {m['filepath']: m for m in items}: a later entry replaces an earlier one
\* of the same filepath.
ByPath(items) ==
    [p \in {items[i].filepath : i \in 1..Len(items)} |->
        items[CHOOSE i \in 1..Len(items) :
                 /\ items[i].filepath = p
                 /\ \A j \in (i + 1)..Len(items) : items[j].filepath # p]]

\* The comprehensions raise KeyError on an entry without 'filepath', and
\* old_db_data.get raises AttributeError on a list.
ScanRaises(old_db_data) ==
    \/ ~IsDict(old_db_data)
    \/ \E i \in 1..Len(Get(old_db_data, "movies", << >>)) :
          "filepath" \notin DOMAIN old_db_data.movies[i]
    \/ \E i \in 1..Len(AllEpisodes(old_db_data)) :
          "filepath" \notin DOMAIN AllEpisodes(old_db_data)[i]

\* A scanner that takes a movie it already has an entry of as seen.
ScanMovieKnownIsSeen(old_movies, filepath) ==
    [filepath |-> filepath,
     title |-> FileInfo(filepath).title,
     year |-> FileInfo(filepath).year,
     status |-> IF filepath \in DOMAIN old_movies THEN "Seen" ELSE "Unseen",
     resume_position |-> None]

\* A scanner that rebuilds every movie entry from the file alone.
ScanMovieFresh(old_movies, filepath) ==
    [filepath |-> filepath,
     title |-> FileInfo(filepath).title,
     year |-> FileInfo(filepath).year,
     status |-> "Unseen",
     resume_position |-> None]

\* The entry of one movie file: the old entry of its path, or {}, updated.
ScanMovie(old_movies, filepath) ==
    LET movie_data == Get(old_movies, filepath, EmptyDict)
    IN  Update(movie_data,
               [filepath |-> filepath,
                title |-> FileInfo(filepath).title,
                year |-> FileInfo(filepath).year,
                status |-> Get(movie_data, "status", "Unseen"),
                resume_position |-> Get(movie_data, "resume_position", None)])

\* A scanner whose episode entries default to Seen.
ScanEpisodeSeen(old_series_episodes, filepath) ==
    LET episode_data == Get(old_series_episodes, filepath, EmptyDict)
    IN  Update(episode_data,
               [filepath |-> filepath,
                season |-> FileInfo(filepath).season,
                episode |-> FileInfo(filepath).episode,
                status |-> Get(episode_data, "status", "Seen"),
                resume_position |-> Get(episode_data, "resume_position", None)])

\* The entry of one episode file.
ScanEpisode(old_series_episodes, filepath) ==
    LET episode_data == Get(old_series_episodes, filepath, EmptyDict)
    IN  Update(episode_data,
               [filepath |-> filepath,
                season |-> FileInfo(filepath).season,
                episode |-> FileInfo(filepath).episode,
                status |-> Get(episode_data, "status", "Unseen"),
                resume_position |-> Get(episode_data, "resume_position", None)])

\* A loop that appends every kept file twice.
KeptTwice(listing) ==
    LET kept == SelectSeq(listing, LAMBDA p : FileInfo(p).video /\ FileInfo(p).match)
    IN  kept \o kept

\* The files the two loops keep: a video extension and a matching name.
Kept(listing) ==
    SelectSeq(listing, LAMBDA p : FileInfo(p).video /\ FileInfo(p).match)

\* A scanner that only adds: the movies of the old catalog stay.
ScanDataKeepsGone(old_db_data, movie_listing, series_listing, episode_listing) ==
    LET old == Get(old_db_data, "movies", << >>)
        new == SelectSeq(Kept(movie_listing),
                         LAMBDA p : \A i \in 1..Len(old) : old[i].filepath # p)
    IN  [movies |-> old \o [i \in 1..Len(new) |-> ScanMovie(EmptyDict, new[i])],
         series |-> Get(old_db_data, "series", << >>)]

\* final_db_data for the old catalog and the listings os.listdir gives: the
\* files under Movies, the series directories, and each series' episode files.
ScanData(old_db_data, movie_listing, series_listing, episode_listing) ==
    LET old_movies == ByPath(Get(old_db_data, "movies", << >>))
        old_series_episodes == ByPath(AllEpisodes(old_db_data))
        movies == [i \in 1..Len(Kept(movie_listing)) |->
                      ScanMovie(old_movies, Kept(movie_listing)[i])]
        EpisodesOf(name) ==
            LET files == SelectSeq(Kept(episode_listing),
                                   LAMBDA p : FileInfo(p).series_name = name)
            IN  [i \in 1..Len(files) |-> ScanEpisode(old_series_episodes, files[i])]
        names == SelectSeq(series_listing, LAMBDA name : EpisodesOf(name) # << >>)
    IN  [movies |-> movies,
         series |-> [i \in 1..Len(names) |->
                        [series_name |-> names[i], episodes |-> EpisodesOf(names[i])]]]

\* scan(): load the old catalog, list the volume, merge, save.  An exception
\* of the merge leaves scan before its save.
ScanFrom(caller) ==
    /\ LET old_db_data == Load(db_file).val
           on_disk(top) == {p \in disk : FileInfo(p).top = top}
       IN  IF ScanRaises(old_db_data)
           THEN /\ ret' = [NoRet EXCEPT !.op = caller, !.raised = TRUE]
                /\ UNCHANGED <<pc, frame>>
           ELSE \E movie_listing \in Orders(on_disk("Movies")),
                   episode_listing \in Orders(on_disk("TV_Shows")),
                   series_listing \in Orders({FileInfo(p).series_name :
                                                 p \in on_disk("TV_Shows")}) :
                   EnterSave(caller,
                             ScanData(old_db_data, movie_listing, series_listing,
                                      episode_listing),
                             "")
    /\ UNCHANGED <<db_file, tmp_file, saved>>

\* MediaScanner(media_path, db_manager).scan() called on its own.
Scan ==
    /\ pc = "idle"
    /\ ScanFrom("scan")

(***************************************************************************)
(* The catalog store alone: load, save and update_item_status called in    *)
(* any order on a catalog file that may be missing, unreadable or of an    *)
(* unexpected shape, with exceptions and crashes inside save.              *)
(***************************************************************************)
\* The catalog a first scan writes for a set of files, listed in path order.
FreshCatalog(movie_listing, episode_listing) ==
    ScanData(EmptyDict, movie_listing, <<"X", "Y">>, episode_listing)

\* test_data of the module's own test script: a movie without filepath.
TestData ==
    [movies |-> << [title |-> "Test Movie", year |-> 2024] >>,
     series |-> << [series_name |-> "Test Show", episodes |-> << >>] >>]

SampleCatalog == FreshCatalog(<< MoviePath(1) >>, << EpisodePath(1) >>)

SaveInputs ==
    { SampleCatalog, TestData, EmptyDict }

\* What the volume may hold at db_path when the program first looks.
InitialFiles ==
    { NoFile,
      FileOf(<< >>),
      FileOf(<< Line(0, FALSE, "", "garbage", "", 0) >>),
      FileOf(<< Line(0, TRUE, "", "str", "x", 0) >>),
      FileOf(Dump([movies |-> SampleCatalog.movies])),
      FileOf(Dump(SampleCatalog)) }

StatusValues == {"Seen", "Unseen"}
ResumeValues == {None} \cup (1..MaxResume)

InitStore ==
    /\ db_file \in InitialFiles
    /\ tmp_file \in {NoFile, FileOf(<< Line(0, FALSE, "movies", "block", "", 0) >>)}
    /\ pc = "idle"
    /\ frame = NoFrame
    /\ ret = NoRet
    /\ saved = [valid |-> FALSE, data |-> EmptyDict]
    /\ disk = {}
    /\ current_playlist = << >>
    /\ NoApp
    /\ threads = NoThreads
    /\ legacy = NoLegacy
    /\ scanner = NoScanner

NextStore ==
    \/ LoadCall /\ UNCHANGED <<libraryVars, appVars, threads, legacy, scanner>>
    \/ (\E data \in SaveInputs : SaveCall(data)) /\ UNCHANGED <<libraryVars, appVars, threads, legacy, scanner>>
    \/ (\E filepath \in {MoviePath(1), EpisodePath(1), GonePath},
           status \in StatusValues, resume_position \in ResumeValues :
           UpdateItemStatus(filepath, status, resume_position))
       /\ UNCHANGED <<libraryVars, appVars, threads, legacy, scanner>>
    \/ SaveOpen /\ UNCHANGED <<libraryVars, appVars, threads, legacy, scanner>>
    \/ SaveOpenRaises /\ UNCHANGED <<libraryVars, appVars, threads, legacy, scanner>>
    \/ SaveWritePart /\ UNCHANGED <<libraryVars, appVars, threads, legacy, scanner>>
    \/ SaveWriteAll /\ UNCHANGED <<libraryVars, appVars, threads, legacy, scanner>>
    \/ SaveWriteRaises /\ UNCHANGED <<libraryVars, appVars, threads, legacy, scanner>>
    \/ SaveRename /\ UNCHANGED <<libraryVars, appVars, threads, legacy, scanner>>
    \/ SaveRenameRaises /\ UNCHANGED <<libraryVars, appVars, threads, legacy, scanner>>
    \/ SaveCleanupNoTmp /\ UNCHANGED <<libraryVars, appVars, threads, legacy, scanner>>
    \/ SaveCleanupRemove /\ UNCHANGED <<libraryVars, appVars, threads, legacy, scanner>>
    \/ SaveCleanupRemoveRaises /\ UNCHANGED <<libraryVars, appVars, threads, legacy, scanner>>
    \/ Crash /\ UNCHANGED <<libraryVars, appVars, threads, legacy, scanner>>

SpecStore == InitStore /\ [][NextStore]_vars

(***************************************************************************)
(* PlaylistEngine.create_playlist                                          *)
(***************************************************************************)
\* The sort key of an episode: (e.get('season', 0), e.get('episode', 0)),
\* compared as Python compares tuples.
KeyLess(a, b) ==
    \/ Get(a, "season", 0) < Get(b, "season", 0)
    \/ /\ Get(a, "season", 0) = Get(b, "season", 0)
       /\ Get(a, "episode", 0) < Get(b, "episode", 0)

\* sorted() is stable: an entry goes after the entries whose key is not greater.
RECURSIVE Insert(_, _)
Insert(sorted, e) ==
    IF sorted = << >> THEN << e >>
    ELSE IF KeyLess(e, Head(sorted)) THEN << e >> \o sorted
    ELSE << Head(sorted) >> \o Insert(Tail(sorted), e)

\* A selector that takes the episodes in the order the catalog lists them.
Unsorted(episodes) == episodes

RECURSIVE Sorted(_)
Sorted(episodes) ==
    IF episodes = << >> THEN << >>
    ELSE Insert(Sorted(SubSeq(episodes, 1, Len(episodes) - 1)),
                episodes[Len(episodes)])

\* A selector that takes every entry that has a status.
HasStatus(e) == Get(e, "status", "None") \in {"Unseen", "Seen"}

IsUnseen(e) == Get(e, "status", "None") = "Unseen"

\* The loop that stops at the first Unseen episode: << >> when there is none.
RECURSIVE FirstUnseen(_)
FirstUnseen(episodes) ==
    IF episodes = << >> THEN << >>
    ELSE IF IsUnseen(Head(episodes)) THEN << Head(episodes) >>
    ELSE FirstUnseen(Tail(episodes))

\* What one series adds to eligible_content: its next unseen episode, with
\* the series' name written into it.
NextOfSeries(series) ==
    LET next_unseen_episode == FirstUnseen(Sorted(Get(series, "episodes", << >>)))
    IN  IF next_unseen_episode = << >> THEN << >>
        ELSE << Put(next_unseen_episode[1], "series_name",
                    Get(series, "series_name", "None")) >>

\* eligible_content before the shuffle.
Eligible(db_content) ==
    LET movies == Get(db_content, "movies", << >>)
        series == Get(db_content, "series", << >>)
    IN  SelectSeq(movies, IsUnseen)
            \o Flatten([i \in 1..Len(series) |-> NextOfSeries(series[i])])

\* start_pos = current_item.get('resume_position') or 0: the offset playback
\* starts an item at; None and 0 both read as 0.
StartPos(current_item) ==
    IF Get(current_item, "resume_position", None) = None THEN 0
    ELSE current_item.resume_position

\* random.shuffle: every order of the same items.
Shuffles(items) ==
    {[i \in 1..Len(items) |-> items[f[i]]] : f \in Orders(1..Len(items))}

\* PlaylistEngine(db_content).create_playlist() on the loaded catalog;
\* db_content.get raises AttributeError when the root is a list.
CreatePlaylist ==
    /\ pc = "idle"
    /\ LET db_content == Load(db_file).val
       IN  IF ~IsDict(db_content)
           THEN ret' = [NoRet EXCEPT !.op = "create_playlist", !.raised = TRUE]
           ELSE \E shuffled \in Shuffles(Eligible(db_content)) :
                   ret' = [NoRet EXCEPT !.op = "create_playlist", !.data = shuffled]
    /\ UNCHANGED <<db_file, tmp_file, pc, frame, saved>>

(***************************************************************************)
(* The library: scans of a volume whose files come and go, status updates  *)
(* and playlist builds, in any order.  A save may fail at any of its steps; *)
(* the cleanup that itself fails, which leaves only a temp file that no    *)
(* call reads, and the crash are explored under SpecStore.                 *)
(***************************************************************************)
\* The file sets the volume is seen with.
Volumes ==
    { {MoviePath(1), EpisodePath(1)},
      VolumePaths \ {OtherShowPath},
      VolumePaths \ {MoviePath(1), EpisodePath(1), UnmatchedPath} }

\* Files are added to the volume or removed from it between two calls.
ChangeVolume ==
    /\ pc = "idle"
    /\ \E files \in Volumes \ {disk} : disk' = files
    /\ UNCHANGED <<storeVars, current_playlist, appVars, threads, legacy, scanner>>

InitLibrary ==
    /\ db_file = NoFile
    /\ tmp_file = NoFile
    /\ pc = "idle"
    /\ frame = NoFrame
    /\ ret = NoRet
    /\ saved = [valid |-> FALSE, data |-> EmptyDict]
    /\ disk \in Volumes
    /\ current_playlist = << >>
    /\ NoApp
    /\ threads = NoThreads
    /\ legacy = NoLegacy
    /\ scanner = NoScanner

NextLibrary ==
    \/ ChangeVolume
    \/ Scan /\ UNCHANGED <<libraryVars, appVars, threads, legacy, scanner>>
    \/ CreatePlaylist /\ UNCHANGED <<libraryVars, appVars, threads, legacy, scanner>>
    \/ (\E filepath \in {MoviePath(1), EpisodePath(1)},
           update \in {<<"Seen", None>>, <<"Unseen", MaxResume>>} :
           UpdateItemStatus(filepath, update[1], update[2]))
       /\ UNCHANGED <<libraryVars, appVars, threads, legacy, scanner>>
    \/ SaveOpen /\ UNCHANGED <<libraryVars, appVars, threads, legacy, scanner>>
    \/ SaveOpenRaises /\ UNCHANGED <<libraryVars, appVars, threads, legacy, scanner>>
    \/ SaveWriteAll /\ UNCHANGED <<libraryVars, appVars, threads, legacy, scanner>>
    \/ SaveWriteRaises /\ UNCHANGED <<libraryVars, appVars, threads, legacy, scanner>>
    \/ SaveRename /\ UNCHANGED <<libraryVars, appVars, threads, legacy, scanner>>
    \/ SaveRenameRaises /\ UNCHANGED <<libraryVars, appVars, threads, legacy, scanner>>
    \/ SaveCleanupNoTmp /\ UNCHANGED <<libraryVars, appVars, threads, legacy, scanner>>
    \/ SaveCleanupRemove /\ UNCHANGED <<libraryVars, appVars, threads, legacy, scanner>>

SpecLibrary == InitLibrary /\ [][NextLibrary]_vars

(***************************************************************************)
(* PondTVApp: building the playlist and writing status and resume position *)
(***************************************************************************)
\* not db_content or (not db_content.get('movies') and not
\* db_content.get('series')), for a mapping whose collections are lists.
NeedsScan(db_content) ==
    \/ db_content = EmptyDict
    \/ /\ Get(db_content, "movies", << >>) = << >>
       /\ Get(db_content, "series", << >>) = << >>

\* An initialization that reports success whatever the playlist.
SetPlaylistAlwaysOk(db_content) ==
    \E shuffled \in Shuffles(Eligible(db_content)) :
        /\ current_playlist' = shuffled
        /\ ret' = [NoRet EXCEPT !.op = "initialize", !.ok = TRUE]

\* self.current_playlist = create_playlist(); False when it is empty.
SetPlaylist(db_content) ==
    \E shuffled \in Shuffles(Eligible(db_content)) :
        /\ current_playlist' = shuffled
        /\ ret' = [NoRet EXCEPT !.op = "initialize", !.ok = (shuffled # << >>)]

\* initialize_media_components up to the playlist: load the catalog, scan when
\* it is empty, build the playlist.  An exception is caught and gives False.
InitializeMedia ==
    /\ pc = "idle"
    /\ LET db_content == Load(db_file).val
       IN  IF ~IsDict(db_content)
           THEN /\ ret' = [NoRet EXCEPT !.op = "initialize", !.ok = FALSE]
                /\ UNCHANGED <<pc, frame, current_playlist, db_file, tmp_file, saved>>
           ELSE IF NeedsScan(db_content)
           THEN ScanFrom("initialize") /\ UNCHANGED current_playlist
           ELSE /\ SetPlaylist(db_content)
                /\ UNCHANGED <<pc, frame, db_file, tmp_file, saved>>
    /\ UNCHANGED disk

\* After the scan: db_content = self.db_manager.load(), then the playlist.
InitializeLoad ==
    /\ pc = "initialize_load"
    /\ pc' = "idle"
    /\ LET db_content == Load(db_file).val
       IN  IF ~IsDict(db_content)
           THEN /\ ret' = [NoRet EXCEPT !.op = "initialize", !.ok = FALSE]
                /\ UNCHANGED current_playlist
           ELSE SetPlaylist(db_content)
    /\ UNCHANGED <<db_file, tmp_file, frame, saved, disk>>

\* The length of the media files, in seconds.
Duration == MaxResume + 1

\* get_playback_state() when nothing is playing.
Stopped == [position |-> 0, duration |-> 0]

\* get_playback_state(): zeros when nothing is playing, else the player's
\* time_pos and duration.
PlaybackStates ==
    {Stopped} \cup {[position |-> p, duration |-> Duration] : p \in 0..Duration}

\* update_media_status(media_item, interrupted, force_seen) with the playback
\* state it reads: Seen when forced or at 95% of the duration, else the
\* item's own status, with the position as resume when interrupted past 0.
UpdateMediaStatus(media_item, interrupted, force_seen, state) ==
    LET is_finished == state.duration > 0 /\ 100 * state.position >= 95 * state.duration
        seen == force_seen \/ is_finished
        new_status == IF seen THEN "Seen" ELSE Get(media_item, "status", "Unseen")
        new_resume_pos == IF ~seen /\ interrupted /\ state.position > 0
                          THEN state.position ELSE None
    IN  UpdateItemStatus(media_item.filepath, new_status, new_resume_pos)

\* The 'mark_seen' action during playback.
MarkSeen ==
    \E i \in 1..Len(current_playlist), state \in PlaybackStates :
        UpdateMediaStatus(current_playlist[i], TRUE, TRUE, state)

\* start_playback leaving an item: after a natural end and after next,
\* previous or a guide jump the player is stopped; a shutdown from the guide
\* leaves it playing.
LeaveItem ==
    \E i \in 1..Len(current_playlist), interrupted \in BOOLEAN :
        \E state \in IF interrupted THEN PlaybackStates ELSE {Stopped} :
            UpdateMediaStatus(current_playlist[i], interrupted, FALSE, state)

(***************************************************************************)
(* A viewing session on one volume: playlists are built, items are marked  *)
(* seen or left, and the volume is scanned again, in any order.            *)
(***************************************************************************)
InitSession ==
    /\ db_file = NoFile
    /\ tmp_file = NoFile
    /\ pc = "idle"
    /\ frame = NoFrame
    /\ ret = NoRet
    /\ saved = [valid |-> FALSE, data |-> EmptyDict]
    /\ disk = {MoviePath(1), EpisodePath(1)}
    /\ current_playlist = << >>
    /\ NoApp
    /\ threads = NoThreads
    /\ legacy = NoLegacy
    /\ scanner = NoScanner

NextSession ==
    \/ InitializeMedia /\ UNCHANGED <<appVars, threads, legacy, scanner>>
    \/ InitializeLoad /\ UNCHANGED <<appVars, threads, legacy, scanner>>
    \/ Scan /\ UNCHANGED <<libraryVars, appVars, threads, legacy, scanner>>
    \/ MarkSeen /\ UNCHANGED <<libraryVars, appVars, threads, legacy, scanner>>
    \/ LeaveItem /\ UNCHANGED <<libraryVars, appVars, threads, legacy, scanner>>
    \/ SaveOpen /\ UNCHANGED <<libraryVars, appVars, threads, legacy, scanner>>
    \/ SaveOpenRaises /\ UNCHANGED <<libraryVars, appVars, threads, legacy, scanner>>
    \/ SaveWriteAll /\ UNCHANGED <<libraryVars, appVars, threads, legacy, scanner>>
    \/ SaveWriteRaises /\ UNCHANGED <<libraryVars, appVars, threads, legacy, scanner>>
    \/ SaveRename /\ UNCHANGED <<libraryVars, appVars, threads, legacy, scanner>>
    \/ SaveRenameRaises /\ UNCHANGED <<libraryVars, appVars, threads, legacy, scanner>>
    \/ SaveCleanupNoTmp /\ UNCHANGED <<libraryVars, appVars, threads, legacy, scanner>>
    \/ SaveCleanupRemove /\ UNCHANGED <<libraryVars, appVars, threads, legacy, scanner>>

SpecSession == InitSession /\ [][NextSession]_vars

(***************************************************************************)
(* The volume is taken out, changed and put back between two sessions:     *)
(* the steps of a session and the change of the volume's files.            *)
(***************************************************************************)
NextRemount ==
    \/ ChangeVolume
    \/ InitializeMedia /\ UNCHANGED <<appVars, threads, legacy, scanner>>
    \/ InitializeLoad /\ UNCHANGED <<appVars, threads, legacy, scanner>>
    \/ MarkSeen /\ UNCHANGED <<libraryVars, appVars, threads, legacy, scanner>>
    \/ LeaveItem /\ UNCHANGED <<libraryVars, appVars, threads, legacy, scanner>>
    \/ SaveOpen /\ UNCHANGED <<libraryVars, appVars, threads, legacy, scanner>>
    \/ SaveOpenRaises /\ UNCHANGED <<libraryVars, appVars, threads, legacy, scanner>>
    \/ SaveWriteAll /\ UNCHANGED <<libraryVars, appVars, threads, legacy, scanner>>
    \/ SaveWriteRaises /\ UNCHANGED <<libraryVars, appVars, threads, legacy, scanner>>
    \/ SaveRename /\ UNCHANGED <<libraryVars, appVars, threads, legacy, scanner>>
    \/ SaveRenameRaises /\ UNCHANGED <<libraryVars, appVars, threads, legacy, scanner>>
    \/ SaveCleanupNoTmp /\ UNCHANGED <<libraryVars, appVars, threads, legacy, scanner>>
    \/ SaveCleanupRemove /\ UNCHANGED <<libraryVars, appVars, threads, legacy, scanner>>

SpecRemount == InitSession /\ [][NextRemount]_vars

(***************************************************************************)
(* PondTVApp.run: the orchestrator, its player and its input queue.  The   *)
(* store's calls are the ones above; the orchestrator, the keyboard, the   *)
(* engine and the drive take their steps between two steps of a save.      *)
(***************************************************************************)
\* The number of key presses of one run.
MaxActions == 2

\* The actions InputHandler.key_map maps a key to.
KeyActions ==
    {"toggle_pause", "next", "previous", "volume_up", "volume_down", "restart",
     "shutdown", "mark_seen", "toggle_mute", "show_guide"}

\* The keys pressed during the runs explored: the ones whose handling changes
\* the index, the catalog, the guide or the running flag.
PressedKeys == {"next", "previous", "mark_seen", "show_guide", "shutdown"}

\* input_queue.get() takes the oldest action of the queue.
QueueGetNewest(q) == [item |-> q[Len(q)], rest |-> SubSeq(q, 1, Len(q) - 1)]

QueueGet(q) == [item |-> Head(q), rest |-> Tail(q)]

\* get_playback_state(): zeros when is_playing is false.
GetPlaybackState ==
    IF player.is_playing
    THEN [position |-> player.time_pos, duration |-> Duration]
    ELSE Stopped

\* stop_playback(): the engine stops, _is_playing is False.
StopPlayback == [player EXCEPT !.is_playing = FALSE]

\* _cleanup_media_components: player_controller.shutdown() terminates the
\* engine of the PlayerController the orchestrator holds, the one
\* start_playback made, and the reference is dropped.
Shutdown == [NewPlayer EXCEPT !.alive = player.alive \ {"start_playback"}]

\* PlayerController(...) in initialize_media_components, which the UIManager
\* takes its engine from, and PlayerController(...) again in start_playback,
\* which replaces the reference to the first.
NewControllers ==
    [NewPlayer EXCEPT !.alive = player.alive \cup {"initialize_media_components",
                                                   "start_playback"}]

\* player.volume_step and player.volume_default of ConfigManager._defaults.
VolumeStep == 5

VolumeDefault == 70

\* set_volume(level): max(0, min(100, level)).
SetVolume(level) ==
    [player EXCEPT !.volume = IF level < 0 THEN 0 ELSE IF level > 100 THEN 100 ELSE level]

\* update_media_status as the orchestrator calls it.  Without the volume the
\* catalog cannot be read, load gives {} and update_item_status gives False.
AppUpdate(media_item, interrupted, force_seen) ==
    IF drive
    THEN UpdateMediaStatus(media_item, interrupted, force_seen, GetPlaybackState)
    ELSE /\ ret' = [NoRet EXCEPT !.op = "update", !.ok = FALSE,
                                 !.path = media_item.filepath]
         /\ UNCHANGED <<db_file, tmp_file, pc, frame, saved>>

\* InputHandler.on_press: the action goes on the queue, and a 'shutdown'
\* stops the listener.
OnPress(action, most) ==
    /\ pc = "idle"
    /\ input.listening
    /\ input.produced < most
    /\ input' = [input EXCEPT
                    !.queue = Append(@, [n |-> input.produced + 1, action |-> action]),
                    !.produced = @ + 1,
                    !.listening = (action # "shutdown")]
    /\ UNCHANGED <<storeVars, libraryVars, app, player, drive>>

\* A key of the keyboard is pressed.
KeyPress(action) == OnPress(action, MaxActions)

\* The volume is pulled out while a playlist is played.
DriveRemoved ==
    /\ pc = "idle"
    /\ app.at \in {"item", "playing", "leave", "left"}
    /\ drive
    /\ drive' = FALSE
    /\ UNCHANGED <<storeVars, libraryVars, app, player, input>>

\* The volume is plugged in again.
DriveInserted ==
    /\ pc = "idle"
    /\ ~drive
    /\ drive' = TRUE
    /\ UNCHANGED <<storeVars, libraryVars, app, player, input>>

\* The engine plays on: the time position observed grows.
PlayerTick ==
    /\ pc = "idle"
    /\ player.is_playing
    /\ ~player.pause
    /\ player.time_pos < Duration
    /\ player' = [player EXCEPT !.time_pos = @ + 1]
    /\ UNCHANGED <<storeVars, libraryVars, app, input, drive>>

\* _eof_handler: the engine reached the end of the file.
PlayerEof ==
    /\ pc = "idle"
    /\ player.is_playing
    /\ player.time_pos = Duration
    /\ player' = [player EXCEPT !.is_playing = FALSE, !.eof_reached = TRUE]
    /\ UNCHANGED <<storeVars, libraryVars, app, input, drive>>

\* _abort_handler, and playback_abort read by is_playing: the engine gave up
\* the file it can no longer read.
PlayerAbort ==
    /\ pc = "idle"
    /\ player.is_playing
    /\ ~drive
    /\ player' = [player EXCEPT !.is_playing = FALSE, !.aborted = TRUE]
    /\ UNCHANGED <<storeVars, libraryVars, app, input, drive>>

\* _cleanup_all_components; the process is over.
Exited(a) == [a EXCEPT !.at = "exited"]

\* _signal_handler on SIGINT or SIGTERM: SHUTTING_DOWN, running False, clean
\* up, sys.exit(0).
Signal ==
    /\ pc = "idle"
    /\ app.at # "exited"
    /\ app' = Exited([app EXCEPT !.state = "shutting_down", !.running = FALSE])
    /\ player' = Shutdown
    /\ input' = [input EXCEPT !.listening = FALSE]
    /\ UNCHANGED <<storeVars, libraryVars, drive>>

\* run(): _initialize_input_handler starts the listener thread.
RunStart ==
    /\ pc = "idle"
    /\ app.at = "run"
    /\ app' = [app EXCEPT !.at = "loop"]
    /\ input' = [input EXCEPT !.listening = TRUE]
    /\ UNCHANGED <<storeVars, libraryVars, player, drive>>

\* "while self.running:" of run(), true: wait_for_media_drive sets
\* WAITING_FOR_MEDIA.
RunLoop ==
    /\ pc = "idle"
    /\ app.at = "loop"
    /\ app.running
    /\ app' = [app EXCEPT !.state = "waiting_for_media", !.at = "waiting"]
    /\ UNCHANGED <<storeVars, libraryVars, player, input, drive>>

\* "while self.running:" of run(), false: _cleanup_all_components, and run()
\* returns.
RunExit ==
    /\ pc = "idle"
    /\ app.at = "loop"
    /\ ~app.running
    /\ app' = Exited(app)
    /\ player' = Shutdown
    /\ input' = [input EXCEPT !.listening = FALSE]
    /\ UNCHANGED <<storeVars, libraryVars, drive>>

\* wait_for_media_drive: find_media_drive found the volume.
DriveFound ==
    /\ pc = "idle"
    /\ app.at = "waiting"
    /\ app.running
    /\ drive
    /\ app' = [app EXCEPT !.at = "initializing"]
    /\ UNCHANGED <<storeVars, libraryVars, player, input, drive>>

\* wait_for_media_drive: no volume, sleep 5 seconds and look again.
DrivePoll ==
    /\ pc = "idle"
    /\ app.at = "waiting"
    /\ app.running
    /\ ~drive
    /\ app' = [app EXCEPT !.polls = 1 - @]
    /\ UNCHANGED <<storeVars, libraryVars, player, input, drive>>

\* initialize_media_components: INITIALIZING, then the catalog and the playlist.
AppInitialize ==
    /\ app.at = "initializing"
    /\ drive
    /\ app' = [app EXCEPT !.state = "initializing", !.at = "initialized"]
    /\ InitializeMedia
    /\ UNCHANGED <<player, input, drive>>

\* initialize_media_components gave True: a PlayerController and a UIManager
\* are made and start_playback makes another PlayerController.
StartPlayback ==
    /\ pc = "idle"
    /\ app.at = "initialized"
    /\ ret.ok
    /\ app' = [app EXCEPT !.at = "item", !.is_guide_visible = FALSE,
                          !.guide_selection_index = 0]
    /\ player' = NewControllers
    /\ UNCHANGED <<storeVars, libraryVars, input, drive>>

\* A run() that gives up when initialize_media_components gave False.
InitializeFailedHalts ==
    /\ pc = "idle"
    /\ app.at = "initialized"
    /\ ~ret.ok
    /\ app' = [app EXCEPT !.at = "exited"]
    /\ player' = Shutdown
    /\ UNCHANGED <<storeVars, libraryVars, input, drive>>

\* initialize_media_components gave False: sleep 10 seconds, continue, with
\* the cleanup of the finally clause.
InitializeFailed ==
    /\ pc = "idle"
    /\ app.at = "initialized"
    /\ ~ret.ok
    /\ app' = [app EXCEPT !.at = "loop"]
    /\ player' = Shutdown
    /\ UNCHANGED <<storeVars, libraryVars, input, drive>>

\* A drive check that finds the drive whether or not it is there.
DriveAlwaysConnected == TRUE

\* usb_manager.is_drive_still_connected(media_path): the path exists, can be
\* read and holds the marker.
IsDriveStillConnected == drive

\* A while condition that does not look at self.running.
IndexInRange == app.current_index < Len(current_playlist)

\* The while condition of start_playback.
HasItem == app.running /\ app.current_index < Len(current_playlist)

\* start_playback is over: the while condition is false.  The finally clause
\* of run() cleans up.
PlaylistFinished ==
    /\ pc = "idle"
    /\ app.at = "item"
    /\ ~HasItem
    /\ app' = [app EXCEPT !.at = "loop"]
    /\ player' = Shutdown
    /\ UNCHANGED <<storeVars, libraryVars, input, drive>>

\* The check before an item: the drive is gone, break, and the finally clause
\* of run() cleans up.
DriveCheckFails ==
    /\ pc = "idle"
    /\ app.at = "item"
    /\ HasItem
    /\ ~IsDriveStillConnected
    /\ app' = [app EXCEPT !.at = "loop"]
    /\ player' = Shutdown
    /\ UNCHANGED <<storeVars, libraryVars, input, drive>>

\* A play() that sets _is_playing before it looks for the file.
PlayBeforeCheck(current_item, start_pos) ==
    [player EXCEPT !.is_playing = TRUE, !.time_pos = start_pos,
                   !.eof_reached = FALSE, !.aborted = FALSE,
                   !.played = current_item.filepath \in disk]

\* player_controller.play(current_item, start_pos): False when the file does
\* not exist, else the engine plays from start_pos.
Play(current_item, start_pos) ==
    IF current_item.filepath \in disk
    THEN [player EXCEPT !.is_playing = TRUE, !.time_pos = start_pos,
                        !.eof_reached = FALSE, !.aborted = FALSE,
                        !.played = TRUE]
    ELSE [player EXCEPT !.played = FALSE]

\* The drive is there: current_item is read and played from its resume
\* position, and handle_playback_loop begins.
PlayItem ==
    /\ pc = "idle"
    /\ app.at = "item"
    /\ HasItem
    /\ IsDriveStillConnected
    /\ LET current_item == current_playlist[app.current_index + 1]
       IN  /\ app' = [app EXCEPT !.at = "playing", !.current_item = current_item]
           /\ player' = Play(current_item, StartPos(current_item))
    /\ UNCHANGED <<storeVars, libraryVars, input, drive>>

\* handle_playback_loop: is_playing is false, the loop ends and gives False.
PlaybackEnds ==
    /\ pc = "idle"
    /\ app.at = "playing"
    /\ ~player.is_playing
    /\ app' = [app EXCEPT !.at = "leave", !.playback_interrupted = FALSE]
    /\ UNCHANGED <<storeVars, libraryVars, player, input, drive>>

\* "return True" of a handler: handle_playback_loop gives True.
Interrupt(a) == [a EXCEPT !.at = "leave", !.playback_interrupted = TRUE]

\* _handle_playback_action.
HandlePlaybackAction(action) ==
    IF action = "next"
    THEN /\ app' = Interrupt([app EXCEPT !.current_index = @ + 1])
         /\ player' = StopPlayback
         /\ UNCHANGED storeVars
    ELSE IF action = "previous"
    THEN /\ app' = Interrupt([app EXCEPT !.current_index = IF @ > 0 THEN @ - 1 ELSE 0])
         /\ player' = StopPlayback
         /\ UNCHANGED storeVars
    ELSE IF action = "mark_seen"
    THEN /\ AppUpdate(current_playlist[app.current_index + 1], TRUE, TRUE)
         /\ UNCHANGED <<app, player>>
    ELSE IF action = "show_guide"
    THEN /\ app' = [app EXCEPT !.is_guide_visible = ~@]
         /\ UNCHANGED <<storeVars, player>>
    ELSE IF action = "shutdown"
    THEN /\ app' = Interrupt([app EXCEPT !.running = FALSE])
         /\ player' = StopPlayback
         /\ UNCHANGED storeVars
    ELSE IF action = "restart"
    THEN /\ player' = [player EXCEPT !.time_pos = 0]
         /\ UNCHANGED <<storeVars, app>>
    ELSE IF action = "toggle_pause"
    THEN /\ player' = [player EXCEPT !.pause = ~@]
         /\ UNCHANGED <<storeVars, app>>
    ELSE IF action = "volume_up"
    THEN /\ player' = SetVolume(player.volume + VolumeStep)
         /\ UNCHANGED <<storeVars, app>>
    ELSE IF action = "volume_down"
    THEN /\ player' = SetVolume(player.volume - VolumeStep)
         /\ UNCHANGED <<storeVars, app>>
    ELSE IF action = "toggle_mute"
    THEN /\ player' = SetVolume(IF player.volume > 0 THEN 0 ELSE VolumeDefault)
         /\ UNCHANGED <<storeVars, app>>
    ELSE UNCHANGED <<storeVars, app, player>>

\* A guide that absorbs nothing: every action is handled as in playback.
GuideAbsorbsNothing(action) == HandlePlaybackAction(action)

\* An index that is always the first item's.
FirstIndex(selected_item) == 0

\* self.current_playlist.index(selected_item): the index of the first item
\* equal to it.
PlaylistIndex(selected_item) ==
    CHOOSE i \in 0..(Len(current_playlist) - 1) :
        /\ current_playlist[i + 1] = selected_item
        /\ \A j \in 0..(i - 1) : current_playlist[j + 1] # selected_item

\* _handle_guide_action.  guide_navigate gives an item for 'select' only, and
\* hides the guide then; every other direction renders the guide again.
HandleGuideAction(action) ==
    /\ IF action = "select"
       THEN /\ app' = Interrupt([app EXCEPT
                               !.is_guide_visible = FALSE,
                               !.current_index =
                                   PlaylistIndex(current_playlist[app.guide_selection_index + 1])])
            /\ player' = StopPlayback
       ELSE IF action = "up"
       THEN /\ app' = [app EXCEPT !.guide_selection_index =
                                     IF @ > 0 THEN @ - 1 ELSE 0]
            /\ UNCHANGED player
       ELSE IF action = "down"
       THEN /\ app' = [app EXCEPT !.guide_selection_index =
                                     IF @ + 1 < Len(current_playlist) THEN @ + 1
                                     ELSE Len(current_playlist) - 1]
            /\ UNCHANGED player
       ELSE IF action = "shutdown"
       THEN /\ app' = Interrupt([app EXCEPT !.running = FALSE])
            /\ UNCHANGED player
       ELSE UNCHANGED <<app, player>>
    /\ UNCHANGED storeVars

\* handle_playback_loop while is_playing: get an action from the queue and
\* handle it, in the guide when the guide is visible.
HandleAction ==
    /\ pc = "idle"
    /\ app.at = "playing"
    /\ player.is_playing
    /\ input.queue # << >>
    /\ LET got == QueueGet(input.queue)
       IN  /\ input' = [input EXCEPT !.queue = got.rest, !.handled = got.item.n,
                                     !.action = got.item.action]
           /\ IF app.is_guide_visible
              THEN HandleGuideAction(got.item.action)
              ELSE HandlePlaybackAction(got.item.action)
    /\ UNCHANGED <<libraryVars, drive>>

\* A start_playback that goes on after the loop without update_media_status.
LeaveWithoutUpdate ==
    /\ pc = "idle"
    /\ app.at = "leave"
    /\ app' = [app EXCEPT !.at = "left"]
    /\ UNCHANGED <<storeVars, libraryVars, player, input, drive>>

\* update_media_status(current_item, playback_interrupted) after the loop.
LeaveCurrentItem ==
    /\ pc = "idle"
    /\ app.at = "leave"
    /\ app' = [app EXCEPT !.at = "left"]
    /\ AppUpdate(app.current_item, app.playback_interrupted, FALSE)
    /\ UNCHANGED <<libraryVars, player, input, drive>>

\* "if not playback_interrupted: self.current_index += 1", and the while
\* condition is looked at again.
Advance ==
    /\ pc = "idle"
    /\ app.at = "left"
    /\ app' = [app EXCEPT !.at = "item",
                          !.current_index = IF app.playback_interrupted THEN @ ELSE @ + 1]
    /\ UNCHANGED <<storeVars, libraryVars, player, input, drive>>

InitApp ==
    /\ db_file = NoFile
    /\ tmp_file = NoFile
    /\ pc = "idle"
    /\ frame = NoFrame
    /\ ret = NoRet
    /\ saved = [valid |-> FALSE, data |-> EmptyDict]
    /\ disk = {MoviePath(1), EpisodePath(1)}
    /\ current_playlist = << >>
    /\ app = NewApp
    /\ player = NewPlayer
    /\ input = NoInput
    /\ drive \in BOOLEAN
    /\ threads = NoThreads
    /\ legacy = NoLegacy
    /\ scanner = NoScanner

NextApp ==
    \/ (\E action \in PressedKeys : KeyPress(action)) /\ UNCHANGED <<threads, legacy, scanner>>
    \/ DriveRemoved /\ UNCHANGED <<threads, legacy, scanner>>
    \/ DriveInserted /\ UNCHANGED <<threads, legacy, scanner>>
    \/ PlayerTick /\ UNCHANGED <<threads, legacy, scanner>>
    \/ PlayerEof /\ UNCHANGED <<threads, legacy, scanner>>
    \/ PlayerAbort /\ UNCHANGED <<threads, legacy, scanner>>
    \/ Signal /\ UNCHANGED <<threads, legacy, scanner>>
    \/ RunStart /\ UNCHANGED <<threads, legacy, scanner>>
    \/ RunLoop /\ UNCHANGED <<threads, legacy, scanner>>
    \/ RunExit /\ UNCHANGED <<threads, legacy, scanner>>
    \/ DriveFound /\ UNCHANGED <<threads, legacy, scanner>>
    \/ DrivePoll /\ UNCHANGED <<threads, legacy, scanner>>
    \/ AppInitialize /\ UNCHANGED <<threads, legacy, scanner>>
    \/ InitializeLoad /\ UNCHANGED <<appVars, threads, legacy, scanner>>
    \/ StartPlayback /\ UNCHANGED <<threads, legacy, scanner>>
    \/ InitializeFailed /\ UNCHANGED <<threads, legacy, scanner>>
    \/ PlaylistFinished /\ UNCHANGED <<threads, legacy, scanner>>
    \/ DriveCheckFails /\ UNCHANGED <<threads, legacy, scanner>>
    \/ PlayItem /\ UNCHANGED <<threads, legacy, scanner>>
    \/ PlaybackEnds /\ UNCHANGED <<threads, legacy, scanner>>
    \/ HandleAction /\ UNCHANGED <<threads, legacy, scanner>>
    \/ LeaveCurrentItem /\ UNCHANGED <<threads, legacy, scanner>>
    \/ Advance /\ UNCHANGED <<threads, legacy, scanner>>
    \/ SaveOpen /\ UNCHANGED <<libraryVars, appVars, threads, legacy, scanner>>
    \/ SaveOpenRaises /\ UNCHANGED <<libraryVars, appVars, threads, legacy, scanner>>
    \/ SaveWriteAll /\ UNCHANGED <<libraryVars, appVars, threads, legacy, scanner>>
    \/ SaveWriteRaises /\ UNCHANGED <<libraryVars, appVars, threads, legacy, scanner>>
    \/ SaveRename /\ UNCHANGED <<libraryVars, appVars, threads, legacy, scanner>>
    \/ SaveRenameRaises /\ UNCHANGED <<libraryVars, appVars, threads, legacy, scanner>>
    \/ SaveCleanupNoTmp /\ UNCHANGED <<libraryVars, appVars, threads, legacy, scanner>>
    \/ SaveCleanupRemove /\ UNCHANGED <<libraryVars, appVars, threads, legacy, scanner>>

SpecApp == InitApp /\ [][NextApp]_vars

(***************************************************************************)
(* A session on a volume that stays connected and takes every write, with  *)
(* the keys of the playback controls and of the guide.                     *)
(***************************************************************************)
\* The playback controls the guide is to absorb.
Controls ==
    {"toggle_pause", "restart", "volume_up", "volume_down", "toggle_mute",
     "mark_seen"}

InitControls ==
    /\ db_file = NoFile
    /\ tmp_file = NoFile
    /\ pc = "idle"
    /\ frame = NoFrame
    /\ ret = NoRet
    /\ saved = [valid |-> FALSE, data |-> EmptyDict]
    /\ disk = {MoviePath(1), EpisodePath(1)}
    /\ current_playlist = << >>
    /\ app = NewApp
    /\ player = NewPlayer
    /\ input = NoInput
    /\ drive = TRUE
    /\ threads = NoThreads
    /\ legacy = NoLegacy
    /\ scanner = NoScanner

NextControls ==
    \/ (\E action \in Controls \cup {"show_guide"} : KeyPress(action)) /\ UNCHANGED <<threads, legacy, scanner>>
    \/ PlayerTick /\ UNCHANGED <<threads, legacy, scanner>>
    \/ PlayerEof /\ UNCHANGED <<threads, legacy, scanner>>
    \/ RunStart /\ UNCHANGED <<threads, legacy, scanner>>
    \/ RunLoop /\ UNCHANGED <<threads, legacy, scanner>>
    \/ DriveFound /\ UNCHANGED <<threads, legacy, scanner>>
    \/ AppInitialize /\ UNCHANGED <<threads, legacy, scanner>>
    \/ InitializeLoad /\ UNCHANGED <<appVars, threads, legacy, scanner>>
    \/ StartPlayback /\ UNCHANGED <<threads, legacy, scanner>>
    \/ PlaylistFinished /\ UNCHANGED <<threads, legacy, scanner>>
    \/ PlayItem /\ UNCHANGED <<threads, legacy, scanner>>
    \/ PlaybackEnds /\ UNCHANGED <<threads, legacy, scanner>>
    \/ HandleAction /\ UNCHANGED <<threads, legacy, scanner>>
    \/ LeaveCurrentItem /\ UNCHANGED <<threads, legacy, scanner>>
    \/ Advance /\ UNCHANGED <<threads, legacy, scanner>>
    \/ SaveOpen /\ UNCHANGED <<libraryVars, appVars, threads, legacy, scanner>>
    \/ SaveWriteAll /\ UNCHANGED <<libraryVars, appVars, threads, legacy, scanner>>
    \/ SaveRename /\ UNCHANGED <<libraryVars, appVars, threads, legacy, scanner>>

SpecControls == InitControls /\ [][NextControls]_vars

\* The number of guide actions of one run.
MaxGuideActions == 3

\* The actions that open the guide, move its selection and select.  The keys
\* of InputHandler.key_map give 'show_guide' only; 'up', 'down' and 'select'
\* are actions _handle_guide_action takes from the queue, put there by an
\* input source other than that key map.
GuideActions == {"show_guide", "up", "down", "select"}

NextGuide ==
    \/ (\E action \in GuideActions : OnPress(action, MaxGuideActions)) /\ UNCHANGED <<threads, legacy, scanner>>
    \/ PlayerTick /\ UNCHANGED <<threads, legacy, scanner>>
    \/ PlayerEof /\ UNCHANGED <<threads, legacy, scanner>>
    \/ RunStart /\ UNCHANGED <<threads, legacy, scanner>>
    \/ RunLoop /\ UNCHANGED <<threads, legacy, scanner>>
    \/ DriveFound /\ UNCHANGED <<threads, legacy, scanner>>
    \/ AppInitialize /\ UNCHANGED <<threads, legacy, scanner>>
    \/ InitializeLoad /\ UNCHANGED <<appVars, threads, legacy, scanner>>
    \/ StartPlayback /\ UNCHANGED <<threads, legacy, scanner>>
    \/ PlaylistFinished /\ UNCHANGED <<threads, legacy, scanner>>
    \/ PlayItem /\ UNCHANGED <<threads, legacy, scanner>>
    \/ PlaybackEnds /\ UNCHANGED <<threads, legacy, scanner>>
    \/ HandleAction /\ UNCHANGED <<threads, legacy, scanner>>
    \/ LeaveCurrentItem /\ UNCHANGED <<threads, legacy, scanner>>
    \/ Advance /\ UNCHANGED <<threads, legacy, scanner>>
    \/ SaveOpen /\ UNCHANGED <<libraryVars, appVars, threads, legacy, scanner>>
    \/ SaveWriteAll /\ UNCHANGED <<libraryVars, appVars, threads, legacy, scanner>>
    \/ SaveRename /\ UNCHANGED <<libraryVars, appVars, threads, legacy, scanner>>

SpecGuide == InitControls /\ [][NextGuide]_vars

(***************************************************************************)
(* A session whose play requests may fail: a file the catalog lists is     *)
(* deleted from the volume, or the engine is unavailable, has crashed or   *)
(* raises in play().                                                       *)
(***************************************************************************)
\* The keys pressed during these runs.
EngineKeys == {"next", "mark_seen", "shutdown"}

\* A media file is deleted from the connected volume.
FileRemoved ==
    /\ pc = "idle"
    /\ drive
    /\ \E path \in disk : disk' = disk \ {path}
    /\ UNCHANGED <<storeVars, current_playlist, appVars>>

\* play() returns False: "if self._player_crashed or not self.player", or
\* the engine raised and the except clause set _is_playing to False.  The
\* is_playing property is False in both cases.
PlayFails == [player EXCEPT !.is_playing = FALSE, !.played = FALSE]

\* The play request for current_item on an engine that fails.
PlayItemEngineFails ==
    /\ pc = "idle"
    /\ app.at = "item"
    /\ HasItem
    /\ IsDriveStillConnected
    /\ LET current_item == current_playlist[app.current_index + 1]
       IN  app' = [app EXCEPT !.at = "playing", !.current_item = current_item]
    /\ player' = PlayFails
    /\ UNCHANGED <<storeVars, libraryVars, input, drive>>

NextEngine ==
    \/ (\E action \in EngineKeys : KeyPress(action)) /\ UNCHANGED <<threads, legacy, scanner>>
    \/ FileRemoved /\ UNCHANGED <<threads, legacy, scanner>>
    \/ DriveRemoved /\ UNCHANGED <<threads, legacy, scanner>>
    \/ DriveInserted /\ UNCHANGED <<threads, legacy, scanner>>
    \/ PlayerTick /\ UNCHANGED <<threads, legacy, scanner>>
    \/ PlayerEof /\ UNCHANGED <<threads, legacy, scanner>>
    \/ PlayerAbort /\ UNCHANGED <<threads, legacy, scanner>>
    \/ Signal /\ UNCHANGED <<threads, legacy, scanner>>
    \/ RunStart /\ UNCHANGED <<threads, legacy, scanner>>
    \/ RunLoop /\ UNCHANGED <<threads, legacy, scanner>>
    \/ RunExit /\ UNCHANGED <<threads, legacy, scanner>>
    \/ DriveFound /\ UNCHANGED <<threads, legacy, scanner>>
    \/ DrivePoll /\ UNCHANGED <<threads, legacy, scanner>>
    \/ AppInitialize /\ UNCHANGED <<threads, legacy, scanner>>
    \/ InitializeLoad /\ UNCHANGED <<appVars, threads, legacy, scanner>>
    \/ StartPlayback /\ UNCHANGED <<threads, legacy, scanner>>
    \/ InitializeFailed /\ UNCHANGED <<threads, legacy, scanner>>
    \/ PlaylistFinished /\ UNCHANGED <<threads, legacy, scanner>>
    \/ DriveCheckFails /\ UNCHANGED <<threads, legacy, scanner>>
    \/ PlayItem /\ UNCHANGED <<threads, legacy, scanner>>
    \/ PlayItemEngineFails /\ UNCHANGED <<threads, legacy, scanner>>
    \/ PlaybackEnds /\ UNCHANGED <<threads, legacy, scanner>>
    \/ HandleAction /\ UNCHANGED <<threads, legacy, scanner>>
    \/ LeaveCurrentItem /\ UNCHANGED <<threads, legacy, scanner>>
    \/ Advance /\ UNCHANGED <<threads, legacy, scanner>>
    \/ SaveOpen /\ UNCHANGED <<libraryVars, appVars, threads, legacy, scanner>>
    \/ SaveWriteAll /\ UNCHANGED <<libraryVars, appVars, threads, legacy, scanner>>
    \/ SaveRename /\ UNCHANGED <<libraryVars, appVars, threads, legacy, scanner>>

SpecEngine == InitControls /\ [][NextEngine]_vars

(***************************************************************************)
(* The orchestrator's thread keeps running: a step of run(), of what it    *)
(* calls or of a save that can be taken is taken in the end.  Keys, the    *)
(* engine's progress and signals come when they come; the volume stays     *)
(* connected and takes every write.  No item is marked seen in these runs, *)
(* so the playlist is never empty and initialization never gives False.    *)
(***************************************************************************)
\* The keys pressed during these runs.
ShutdownKeys == {"show_guide", "next", "shutdown"}

\* The steps of the thread that runs run(): the ones that read the catalog
\* file, and the others.
CatalogSteps ==
    \/ AppInitialize /\ UNCHANGED <<threads, legacy, scanner>>
    \/ InitializeLoad /\ UNCHANGED <<appVars, threads, legacy, scanner>>
    \/ LeaveCurrentItem /\ UNCHANGED <<threads, legacy, scanner>>

\* A step of CatalogSteps can be taken: the guards of its three actions.
CatalogStepsEnabled ==
    \/ pc = "idle" /\ app.at = "initializing" /\ drive
    \/ pc = "initialize_load"
    \/ pc = "idle" /\ app.at = "leave"

OtherSteps ==
    \/ RunStart /\ UNCHANGED <<threads, legacy, scanner>>
    \/ RunLoop /\ UNCHANGED <<threads, legacy, scanner>>
    \/ RunExit /\ UNCHANGED <<threads, legacy, scanner>>
    \/ DriveFound /\ UNCHANGED <<threads, legacy, scanner>>
    \/ StartPlayback /\ UNCHANGED <<threads, legacy, scanner>>
    \/ PlaylistFinished /\ UNCHANGED <<threads, legacy, scanner>>
    \/ PlayItem /\ UNCHANGED <<threads, legacy, scanner>>
    \/ PlaybackEnds /\ UNCHANGED <<threads, legacy, scanner>>
    \/ HandleAction /\ UNCHANGED <<threads, legacy, scanner>>
    \/ Advance /\ UNCHANGED <<threads, legacy, scanner>>
    \/ SaveOpen /\ UNCHANGED <<libraryVars, appVars, threads, legacy, scanner>>
    \/ SaveWriteAll /\ UNCHANGED <<libraryVars, appVars, threads, legacy, scanner>>
    \/ SaveRename /\ UNCHANGED <<libraryVars, appVars, threads, legacy, scanner>>

MainThread == CatalogSteps \/ OtherSteps

\* Weak fairness of the thread's steps; for CatalogSteps it is written with
\* the enabling condition spelled out.
MainThreadRuns ==
    /\ WF_vars(OtherSteps)
    /\ (<>[]CatalogStepsEnabled => []<><<CatalogSteps>>_vars)

NextShutdown ==
    \/ (\E action \in ShutdownKeys : KeyPress(action)) /\ UNCHANGED <<threads, legacy, scanner>>
    \/ PlayerTick /\ UNCHANGED <<threads, legacy, scanner>>
    \/ PlayerEof /\ UNCHANGED <<threads, legacy, scanner>>
    \/ Signal /\ UNCHANGED <<threads, legacy, scanner>>
    \/ MainThread

SpecShutdown == InitControls /\ [][NextShutdown]_vars /\ MainThreadRuns

(***************************************************************************)
(* The PlayerController between two threads: the orchestrator calls play   *)
(* and stop_playback and reads is_playing in handle_playback_loop, and the *)
(* engine's event thread calls the three observers.  The engine keeps the  *)
(* file open at its end (keep_open='always').  The order in which changes  *)
(* of different properties are notified is the engine's.                   *)
(***************************************************************************)
\* The is_playing property: False without the flag or when the engine
\* reports playback_abort, else the flag.
IsPlaying == player.is_playing /\ player.core # "idle"

\* Reading the property clears the flag when the engine reports
\* playback_abort.
ReadIsPlaying == [player EXCEPT !.is_playing = IsPlaying]

\* _time_pos_handler(name, value): a position above 0 sets _is_playing.
TimePosHandler(value) ==
    IF value > 0 THEN [player EXCEPT !.is_playing = TRUE] ELSE player

\* _eof_handler(name, True) and _abort_handler(name, True).
EofHandler == [player EXCEPT !.is_playing = FALSE]

AbortHandler == [player EXCEPT !.is_playing = FALSE]

\* play() on a file that exists: _is_playing is True and the engine plays
\* from the start.
PlayStarts ==
    [player EXCEPT !.is_playing = TRUE, !.played = TRUE, !.core = "playing",
                   !.time_pos = 0, !.seen_pos = 0, !.eof_reached = FALSE,
                   !.aborted = FALSE]

\* start_playback calls play for the next item.
CallPlay ==
    /\ app.at = "item"
    /\ app' = [app EXCEPT !.at = "playing"]
    /\ player' = PlayStarts
    /\ UNCHANGED <<storeVars, libraryVars, input, drive, threads, legacy, scanner>>

\* handle_playback_loop reads is_playing, finds it False and returns.
LoopEnds ==
    /\ app.at = "playing"
    /\ ~IsPlaying
    /\ app' = [app EXCEPT !.at = "item"]
    /\ player' = ReadIsPlaying
    /\ UNCHANGED <<storeVars, libraryVars, input, drive, threads, legacy, scanner>>

\* An action that ends the item is handled: stop_playback() stops the
\* engine and sets _is_playing to False.
CallStop ==
    /\ app.at = "playing"
    /\ IsPlaying
    /\ app' = [app EXCEPT !.at = "item"]
    /\ player' = [player EXCEPT !.is_playing = FALSE, !.core = "idle"]
    /\ UNCHANGED <<storeVars, libraryVars, input, drive, threads, legacy, scanner>>

\* The engine plays on.
EngineAdvance ==
    /\ player.core = "playing"
    /\ player.time_pos < Duration
    /\ player' = [player EXCEPT !.time_pos = @ + 1]
    /\ UNCHANGED <<storeVars, libraryVars, app, input, drive, threads, legacy, scanner>>

\* The engine reaches the end of the file and keeps it open.
EngineEnd ==
    /\ player.core = "playing"
    /\ player.time_pos = Duration
    /\ player' = [player EXCEPT !.core = "ended"]
    /\ UNCHANGED <<storeVars, libraryVars, app, input, drive, threads, legacy, scanner>>

\* The event thread takes the change of time-pos, with the position the
\* engine is at.
FetchTimePos ==
    /\ player.events = << >>
    /\ player.core # "idle"
    /\ player.time_pos # player.seen_pos
    /\ player' = [player EXCEPT !.events = <<[name |-> "time-pos", pos |-> player.time_pos]>>,
                                !.seen_pos = player.time_pos]
    /\ UNCHANGED <<storeVars, libraryVars, app, input, drive, threads, legacy, scanner>>

\* The event thread takes the change of eof-reached to True.
FetchEof ==
    /\ player.events = << >>
    /\ player.core = "ended"
    /\ ~player.eof_reached
    /\ player' = [player EXCEPT !.events = <<[name |-> "eof-reached", pos |-> 0]>>]
    /\ UNCHANGED <<storeVars, libraryVars, app, input, drive, threads, legacy, scanner>>

\* The event thread takes the change of playback-abort to True.
FetchAbort ==
    /\ player.events = << >>
    /\ player.core = "idle"
    /\ player.played
    /\ ~player.aborted
    /\ player' = [player EXCEPT !.events = <<[name |-> "playback-abort", pos |-> 0]>>]
    /\ UNCHANGED <<storeVars, libraryVars, app, input, drive, threads, legacy, scanner>>

\* The event thread calls the observer of the property; `eof_reached` and
\* `aborted` record that the observer was called with True.
Deliver ==
    /\ player.events # << >>
    /\ LET event == Head(player.events)
           after == IF event.name = "time-pos" THEN TimePosHandler(event.pos)
                    ELSE IF event.name = "eof-reached" THEN EofHandler
                    ELSE AbortHandler
       IN  player' = [after EXCEPT !.events = << >>,
                                  !.eof_reached = @ \/ event.name = "eof-reached",
                                  !.aborted = @ \/ event.name = "playback-abort"]
    /\ UNCHANGED <<storeVars, libraryVars, app, input, drive, threads, legacy, scanner>>

InitCallbacks ==
    /\ db_file = NoFile
    /\ tmp_file = NoFile
    /\ pc = "idle"
    /\ frame = NoFrame
    /\ ret = NoRet
    /\ saved = [valid |-> FALSE, data |-> EmptyDict]
    /\ disk = {MoviePath(1), EpisodePath(1)}
    /\ current_playlist = << >>
    /\ app = [NewApp EXCEPT !.at = "item"]
    /\ player = NewPlayer
    /\ input = NoInput
    /\ drive = TRUE
    /\ threads = NoThreads
    /\ legacy = NoLegacy
    /\ scanner = NoScanner

NextCallbacks ==
    \/ CallPlay
    \/ LoopEnds
    \/ CallStop
    \/ EngineAdvance
    \/ EngineEnd
    \/ FetchTimePos
    \/ FetchEof
    \/ FetchAbort
    \/ Deliver

SpecCallbacks == InitCallbacks /\ [][NextCallbacks]_vars

(***************************************************************************)
(* The orchestrator while no volume is ever connected: run() polls, keys   *)
(* are pressed, a signal may arrive.  The orchestrator's thread keeps      *)
(* running, so a step of run() that can be taken is taken.                 *)
(***************************************************************************)
InitWaiting ==
    /\ db_file = NoFile
    /\ tmp_file = NoFile
    /\ pc = "idle"
    /\ frame = NoFrame
    /\ ret = NoRet
    /\ saved = [valid |-> FALSE, data |-> EmptyDict]
    /\ disk = {MoviePath(1), EpisodePath(1)}
    /\ current_playlist = << >>
    /\ app = NewApp
    /\ player = NewPlayer
    /\ input = NoInput
    /\ drive = FALSE
    /\ threads = NoThreads
    /\ legacy = NoLegacy
    /\ scanner = NoScanner

NextWaiting ==
    \/ (\E action \in KeyActions : KeyPress(action)) /\ UNCHANGED <<threads, legacy, scanner>>
    \/ Signal /\ UNCHANGED <<threads, legacy, scanner>>
    \/ RunStart /\ UNCHANGED <<threads, legacy, scanner>>
    \/ RunLoop /\ UNCHANGED <<threads, legacy, scanner>>
    \/ DrivePoll /\ UNCHANGED <<threads, legacy, scanner>>

SpecWaiting ==
    /\ InitWaiting
    /\ [][NextWaiting]_vars
    /\ WF_vars((RunStart \/ RunLoop \/ DrivePoll) /\ UNCHANGED <<threads, legacy, scanner>>)

(***************************************************************************)
(* Two threads call update_item_status on one DatabaseManager, each for a  *)
(* path of its own.  A step is one file operation or one lock operation.   *)
(***************************************************************************)
Threads == {"t1", "t2"}

\* The thread has entered "with self._lock:" and not yet left it.
InCall(t) == threads.call[t].pc \in {"load", "save_write", "save_rename", "release"}

\* A lock that is taken without regard to its holder.
AcquireUnlocked(t) == TRUE

\* self._lock (threading.RLock) can be taken when no other thread holds it.
Acquire(t) == threads.lock \in {"none", t}

\* with self._lock: of update_item_status.
ThreadAcquire(t) ==
    /\ threads.call[t].pc = "acquire"
    /\ Acquire(t)
    /\ threads' = [threads EXCEPT !.lock = t, !.call[t].pc = "load"]
    /\ UNCHANGED <<storeVars, libraryVars, appVars, legacy, scanner>>

\* db_content = self.load() and the loops that set status and resume_position.
ThreadLoad(t) ==
    /\ threads.call[t].pc = "load"
    /\ LET c == threads.call[t]
           u == UpdateItem(Load(db_file).val, c.filepath, c.status, c.resume_position)
       IN  threads' = IF u.found
                      THEN [threads EXCEPT !.call[t].pc = "save_write",
                                           !.call[t].db_content = u.data]
                      ELSE [threads EXCEPT !.call[t].pc = "release",
                                           !.call[t].ok = FALSE]
    /\ UNCHANGED <<storeVars, libraryVars, appVars, legacy, scanner>>

\* save: the temp file is opened and the document dumped into it.
ThreadSaveWrite(t) ==
    /\ threads.call[t].pc = "save_write"
    /\ tmp_file' = FileOf(Dump(threads.call[t].db_content))
    /\ threads' = [threads EXCEPT !.call[t].pc = "save_rename"]
    /\ UNCHANGED <<db_file, pc, frame, ret, saved, libraryVars, appVars, legacy, scanner>>

\* save: open raises, save returns False.
ThreadSaveRaises(t) ==
    /\ threads.call[t].pc = "save_write"
    /\ threads' = [threads EXCEPT !.call[t].pc = "release", !.call[t].ok = FALSE]
    /\ UNCHANGED <<storeVars, libraryVars, appVars, legacy, scanner>>

\* save: os.rename(tmp_path, self.db_path); it raises when the temp file is
\* not there.
ThreadSaveRename(t) ==
    /\ threads.call[t].pc = "save_rename"
    /\ IF tmp_file.exists
       THEN /\ db_file' = tmp_file
            /\ tmp_file' = NoFile
            /\ threads' = [threads EXCEPT !.call[t].pc = "release", !.call[t].ok = TRUE]
       ELSE /\ threads' = [threads EXCEPT !.call[t].pc = "release", !.call[t].ok = FALSE]
            /\ UNCHANGED <<db_file, tmp_file>>
    /\ UNCHANGED <<pc, frame, ret, saved, libraryVars, appVars, legacy, scanner>>

\* The with block is left: the lock is released and the call returns.
ThreadRelease(t) ==
    /\ threads.call[t].pc = "release"
    /\ threads' = [threads EXCEPT !.lock = "none", !.call[t].pc = "done"]
    /\ UNCHANGED <<storeVars, libraryVars, appVars, legacy, scanner>>

\* The path each thread updates.
PathOf(t) == IF t = "t1" THEN MoviePath(1) ELSE EpisodePath(1)

InitThreads ==
    /\ db_file = FileOf(Dump(SampleCatalog))
    /\ tmp_file = NoFile
    /\ pc = "idle"
    /\ frame = NoFrame
    /\ ret = NoRet
    /\ saved = [valid |-> FALSE, data |-> EmptyDict]
    /\ disk = {MoviePath(1), EpisodePath(1)}
    /\ current_playlist = << >>
    /\ NoApp
    /\ legacy = NoLegacy
    /\ scanner = NoScanner
    /\ \E status \in [Threads -> StatusValues],
          resume_position \in [Threads -> ResumeValues] :
          threads = [lock |-> "none",
                     call |-> [t \in Threads |->
                                 [pc |-> "acquire", filepath |-> PathOf(t),
                                  status |-> status[t],
                                  resume_position |-> resume_position[t],
                                  db_content |-> EmptyDict, ok |-> FALSE]]]

NextThreads ==
    \/ \E t \in Threads : ThreadAcquire(t)
    \/ \E t \in Threads : ThreadLoad(t)
    \/ \E t \in Threads : ThreadSaveWrite(t)
    \/ \E t \in Threads : ThreadSaveRaises(t)
    \/ \E t \in Threads : ThreadSaveRename(t)
    \/ \E t \in Threads : ThreadRelease(t)

SpecThreads == InitThreads /\ [][NextThreads]_vars

(***************************************************************************)
(* pondtv/database_manager.py and pondtv/media_scanner.py: the catalog     *)
(* whose movies and tv_shows are mappings from a title to an entry.  A     *)
(* Python value carries its type here: validation asks for it.  A file's   *)
(* text is YAML holding a document, written by yaml.dump ("dumped") or by  *)
(* hand, or text that is not YAML.                                         *)
(***************************************************************************)
PyNone == [type |-> "NoneType"]
PyStr(s) == [type |-> "str", s |-> s]
PyList(items) == [type |-> "list", items |-> items]
PyDict(items) == [type |-> "dict", items |-> items]

\* bool(value) as "not data" takes it.
Truthy(v) ==
    CASE v.type = "NoneType" -> FALSE
      [] v.type = "str" -> v.s # ""
      [] v.type = "list" -> v.items # << >>
      [] v.type = "dict" -> DOMAIN v.items # {}

\* isinstance(value, dict)
IsInstanceDict(v) == v.type = "dict"

\* key in value, for a dict.
In(k, v) == k \in DOMAIN v.items

Titles == {"A", "B"}

\* The entry _scan_movies makes for the movie folder `title`.
ScannedMovie(title) ==
    PyDict([k \in {"year", "filepath", "status", "resume_position"} |->
               IF k = "filepath" THEN PyStr(title) ELSE PyNone])

\* The entry _scan_series makes for a show folder.
ScannedShow == PyDict([k \in {"seasons"} |-> PyDict(<< >>)])

\* MediaScanner.scan: db_content starts as {'movies': [], 'tv_shows': {}};
\* each key is replaced by a mapping when its folder exists.  media_path is
\* the set of folders of the volume.
LegacyScan(media_path) ==
    PyDict([k \in {"movies", "tv_shows"} |->
               IF k = "movies"
               THEN IF "Movies" \in media_path
                    THEN PyDict([t \in {t \in Titles : t \in media_path}
                                    |-> ScannedMovie(t)])
                    ELSE PyList(<< >>)
               ELSE IF "TV_Shows" \in media_path /\ "X" \in media_path
                    THEN PyDict([t \in {"X"} |-> ScannedShow])
                    ELSE PyDict(<< >>)])

MediaPaths == SUBSET {"Movies", "TV_Shows", "A", "X"}

\* What a catalog file on a volume can hold under movies and under tv_shows.
MovieEntries ==
    {PyStr("a.mkv"), PyDict([k \in {"status"} |-> PyStr("Seen")]), ScannedMovie("A")}
SeriesEntries ==
    {PyNone, PyDict([k \in {"episodes"} |-> PyList(<< >>)]), ScannedShow}
Collections(entries) ==
    {PyList(<< >>)} \cup
    {PyDict(f) : f \in UNION {[T -> entries] : T \in SUBSET Titles}}
Absent == [type |-> "absent"]
RootOf(movies, tv_shows) ==
    PyDict([k \in {k \in {"movies", "tv_shows"} :
                     \/ k = "movies" /\ movies # Absent
                     \/ k = "tv_shows" /\ tv_shows # Absent}
               |-> IF k = "movies" THEN movies ELSE tv_shows])
LegacyDocuments ==
    {PyNone, PyList(<< >>), PyStr("movies")} \cup
    {RootOf(m, t) : m \in Collections(MovieEntries) \cup {Absent},
                    t \in Collections(SeriesEntries) \cup {Absent}}

YamlText(doc, form) == [kind |-> "yaml", doc |-> doc, form |-> form]
Garbage == [kind |-> "garbage"]
FileWith(text) == [exists |-> TRUE, text |-> text]
LegacyFiles ==
    {NoLegacy.db_path, FileWith(Garbage)} \cup
    {FileWith(YamlText(d, form)) : d \in LegacyDocuments,
                                   form \in {"dumped", "handwritten"}}

\* DatabaseManager.load: yaml.safe_load of the file, {} for None, for a
\* missing file and for any exception.
LegacyLoad(file) ==
    IF ~file.exists \/ file.text.kind # "yaml" THEN PyDict(<< >>)
    ELSE IF file.text.doc = PyNone THEN PyDict(<< >>)
    ELSE file.text.doc

\* <collection>.items() raises AttributeError for what is not a dict.
ItemsRaises(v) == ~IsInstanceDict(v)

\* DatabaseManager._is_valid: [raises, val].
IsValid(data) ==
    LET result(val) == [called |-> TRUE, raises |-> FALSE, val |-> val]
        raised == [called |-> TRUE, raises |-> TRUE, val |-> FALSE]
    IN  IF ~IsInstanceDict(data) THEN result(FALSE)
        ELSE IF ~In("movies", data) \/ ~In("tv_shows", data) THEN result(FALSE)
        ELSE LET tv_shows == data.items["tv_shows"]
                 movies == data.items["movies"]
             IN  IF ItemsRaises(tv_shows) THEN raised
                 ELSE IF \E t \in DOMAIN tv_shows.items :
                            \/ ~IsInstanceDict(tv_shows.items[t])
                            \/ ~In("seasons", tv_shows.items[t])
                      THEN result(FALSE)
                 ELSE IF ItemsRaises(movies) THEN raised
                 ELSE IF \E t \in DOMAIN movies.items :
                            \/ ~IsInstanceDict(movies.items[t])
                            \/ ~In("filepath", movies.items[t])
                      THEN result(FALSE)
                 ELSE result(TRUE)

\* load_and_validate: data = self.load()
LoadAndValidateLoad ==
    /\ legacy.pc = "load"
    /\ legacy' = [legacy EXCEPT !.data = LegacyLoad(legacy.db_path), !.pc = "check"]
    /\ UNCHANGED <<storeVars, libraryVars, appVars, threads, scanner>>

\* if not data or not self._is_valid(data): ... else return data
LoadAndValidateCheck ==
    /\ legacy.pc = "check"
    /\ legacy' =
         IF ~Truthy(legacy.data) THEN [legacy EXCEPT !.pc = "scan"]
         ELSE LET v == IsValid(legacy.data)
              IN  [legacy EXCEPT !.valid = v,
                                 !.pc = IF v.raises THEN "raised"
                                        ELSE IF v.val THEN "returned"
                                        ELSE "backup"]
    /\ UNCHANGED <<storeVars, libraryVars, appVars, threads, scanner>>

\* self.backup(): the loaded data is dumped to db_path + '.backup' unless it
\* is empty.
LoadAndValidateBackup ==
    /\ legacy.pc = "backup"
    /\ LET current_data == LegacyLoad(legacy.db_path)
       IN  legacy' = [legacy EXCEPT
                        !.backup_path = IF Truthy(current_data)
                                        THEN FileWith(YamlText(current_data, "dumped"))
                                        ELSE @,
                        !.pc = "scan"]
    /\ UNCHANGED <<storeVars, libraryVars, appVars, threads, scanner>>

\* scanner = MediaScanner(media_path); data = scanner.scan()
LoadAndValidateScan ==
    /\ legacy.pc = "scan"
    /\ legacy' = [legacy EXCEPT !.data = LegacyScan(legacy.media_path), !.pc = "save"]
    /\ UNCHANGED <<storeVars, libraryVars, appVars, threads, scanner>>

\* self.save(data); return data
LoadAndValidateSave ==
    /\ legacy.pc = "save"
    /\ legacy' = [legacy EXCEPT !.db_path = FileWith(YamlText(legacy.data, "dumped")),
                                !.pc = "returned"]
    /\ UNCHANGED <<storeVars, libraryVars, appVars, threads, scanner>>

InitLegacy ==
    /\ db_file = NoFile
    /\ tmp_file = NoFile
    /\ pc = "idle"
    /\ frame = NoFrame
    /\ ret = NoRet
    /\ saved = [valid |-> FALSE, data |-> EmptyDict]
    /\ disk = {}
    /\ current_playlist = << >>
    /\ NoApp
    /\ threads = NoThreads
    /\ scanner = NoScanner
    /\ \E file \in LegacyFiles, media_path \in MediaPaths :
          legacy = [NoLegacy EXCEPT !.pc = "load", !.db_path = file,
                                    !.media_path = media_path]

NextLegacy ==
    \/ LoadAndValidateLoad
    \/ LoadAndValidateCheck
    \/ LoadAndValidateBackup
    \/ LoadAndValidateScan
    \/ LoadAndValidateSave

SpecLegacy == InitLegacy /\ [][NextLegacy]_vars

(***************************************************************************)
(* pondtv/media_scanner.py: the names of files and folders.  A string is   *)
(* the sequence of its characters, so that a regular expression is matched *)
(* character by character as re does: leftmost match, alternatives in the  *)
(* order written, greedy repetition.                                       *)
(***************************************************************************)
DigitChars == <<"0", "1", "2", "3", "4", "5", "6", "7", "8", "9">>
UpperCase == <<"A", "B", "C", "D", "E", "F", "G", "H", "I", "J", "K", "L", "M",
               "N", "O", "P", "Q", "R", "S", "T", "U", "V", "W", "X", "Y", "Z">>
LowerCase == <<"a", "b", "c", "d", "e", "f", "g", "h", "i", "j", "k", "l", "m",
               "n", "o", "p", "q", "r", "s", "t", "u", "v", "w", "x", "y", "z">>

\* \d
IsDigit(c) == \E n \in DOMAIN DigitChars : DigitChars[n] = c

\* str.lower() and str.upper() of one character.
Lower(c) ==
    IF \E n \in DOMAIN UpperCase : UpperCase[n] = c
    THEN LowerCase[CHOOSE n \in DOMAIN UpperCase : UpperCase[n] = c]
    ELSE c
Upper(c) ==
    IF \E n \in DOMAIN LowerCase : LowerCase[n] = c
    THEN UpperCase[CHOOSE n \in DOMAIN LowerCase : LowerCase[n] = c]
    ELSE c

\* int(text) for a text of digits.
RECURSIVE IntOf(_)
IntOf(text) ==
    IF text = << >> THEN 0
    ELSE 10 * IntOf(SubSeq(text, 1, Len(text) - 1))
         + ((CHOOSE n \in DOMAIN DigitChars : DigitChars[n] = text[Len(text)]) - 1)

\* The characters of text from position pos on.
From(text, pos) == SubSeq(text, pos, Len(text))

\* The literal (given in lower case) stands at pos of text; re.I.
LiteralAt(text, pos, literal) ==
    /\ pos + Len(literal) - 1 <= Len(text)
    /\ \A k \in 1..Len(literal) : Lower(text[pos + k - 1]) = literal[k]

\* The number of digits a greedy \d{1,most} takes at pos; 0 when none.
DigitsAt(text, pos, most) ==
    IF \E n \in 1..most : \A k \in 0..(n - 1) :
           pos + k <= Len(text) /\ IsDigit(text[pos + k])
    THEN CHOOSE n \in 1..most :
             /\ \A k \in 0..(n - 1) : pos + k <= Len(text) /\ IsDigit(text[pos + k])
             /\ n = most \/ pos + n > Len(text) \/ ~IsDigit(text[pos + n])
    ELSE 0

\* [._\s-]
IsSeparator(c) == c \in {".", "_", " ", "-"}

\* The first of the lower-case literals that stands at pos, << >> when none.
FirstLiteralAt(text, pos, literals) ==
    IF \E n \in DOMAIN literals : LiteralAt(text, pos, literals[n])
    THEN literals[CHOOSE n \in DOMAIN literals :
                      /\ LiteralAt(text, pos, literals[n])
                      /\ \A m \in 1..(n - 1) : ~LiteralAt(text, pos, literals[m])]
    ELSE << >>

NoMatch == [found |-> FALSE, season |-> 0, episode |-> 0]

\* SEASON_EPISODE_REGEX = [._\s-](s|season)?(\d{1,2})[ex](\d{1,3})[._\s-]
\* tried at position pos: the groups when it matches there.
SeasonEpisodeAt(text, pos) ==
    IF pos > Len(text) \/ ~IsSeparator(text[pos]) THEN NoMatch
    ELSE LET Try(prefix) ==
                 LET p == pos + 1 + Len(prefix)
                     d1 == {n \in 1..2 :
                              /\ n <= DigitsAt(text, p, 2)
                              /\ p + n <= Len(text)
                              /\ Lower(text[p + n]) \in {"e", "x"}
                              /\ \E m \in 1..3 :
                                    /\ m <= DigitsAt(text, p + n + 1, 3)
                                    /\ p + n + 1 + m <= Len(text)
                                    /\ IsSeparator(text[p + n + 1 + m])}
                 IN  IF ~LiteralAt(text, pos + 1, prefix) \/ d1 = {} THEN NoMatch
                     ELSE LET n == CHOOSE n \in d1 : \A k \in d1 : k <= n
                              q == p + n + 1
                              m == CHOOSE m \in 1..3 :
                                       /\ m <= DigitsAt(text, q, 3)
                                       /\ q + m <= Len(text)
                                       /\ IsSeparator(text[q + m])
                                       /\ \A k \in (m + 1)..3 :
                                             ~(/\ k <= DigitsAt(text, q, 3)
                                               /\ q + k <= Len(text)
                                               /\ IsSeparator(text[q + k]))
                          IN  [found |-> TRUE,
                               season |-> IntOf(SubSeq(text, p, p + n - 1)),
                               episode |-> IntOf(SubSeq(text, q, q + m - 1))]
         IN  IF Try(<<"s">>).found THEN Try(<<"s">>)
             ELSE IF Try(<<"s", "e", "a", "s", "o", "n">>).found
                  THEN Try(<<"s", "e", "a", "s", "o", "n">>)
                  ELSE Try(<< >>)

\* EPISODE_REGEX = [._\s-](e|ep|episode|\dof)(\d{1,3})[._\s-] tried at pos.
EpisodeAt(text, pos) ==
    IF pos > Len(text) \/ ~IsSeparator(text[pos]) THEN NoMatch
    ELSE LET Try(width) ==
                 LET q == pos + 1 + width
                     ms == {m \in 1..3 :
                              /\ m <= DigitsAt(text, q, 3)
                              /\ q + m <= Len(text)
                              /\ IsSeparator(text[q + m])}
                 IN  IF ms = {} THEN NoMatch
                     ELSE LET m == CHOOSE m \in ms : \A k \in ms : k <= m
                          IN  [found |-> TRUE, season |-> 0,
                               episode |-> IntOf(SubSeq(text, q, q + m - 1))]
             e == <<"e">>
             ep == <<"e", "p">>
             episode == <<"e", "p", "i", "s", "o", "d", "e">>
             dof == /\ pos + 3 <= Len(text)
                    /\ IsDigit(text[pos + 1])
                    /\ LiteralAt(text, pos + 2, <<"o", "f">>)
         IN  IF LiteralAt(text, pos + 1, e) /\ Try(1).found THEN Try(1)
             ELSE IF LiteralAt(text, pos + 1, ep) /\ Try(2).found THEN Try(2)
             ELSE IF LiteralAt(text, pos + 1, episode) /\ Try(7).found THEN Try(7)
             ELSE IF dof THEN Try(3)
             ELSE NoMatch

\* re.search(r'(s|season)[\s_.]?(\d{1,2})', rel_path, re.I) tried at pos.
SeasonAt(text, pos) ==
    LET Try(prefix) ==
            LET p == pos + Len(prefix)
                q == IF p <= Len(text) /\ text[p] \in {" ", "_", "."}
                        /\ DigitsAt(text, p + 1, 2) > 0
                     THEN p + 1 ELSE p
            IN  IF LiteralAt(text, pos, prefix) /\ DigitsAt(text, q, 2) > 0
                THEN [found |-> TRUE,
                      season |-> IntOf(SubSeq(text, q, q + DigitsAt(text, q, 2) - 1)),
                      episode |-> 0]
                ELSE NoMatch
    IN  IF Try(<<"s">>).found THEN Try(<<"s">>)
        ELSE Try(<<"s", "e", "a", "s", "o", "n">>)

\* pattern.search(text): the match at the leftmost position that has one.
Search(At(_, _), text) ==
    IF \E pos \in 1..Len(text) : At(text, pos).found
    THEN At(text, CHOOSE pos \in 1..Len(text) :
                      /\ At(text, pos).found
                      /\ \A k \in 1..(pos - 1) : ~At(text, k).found)
    ELSE NoMatch

\* os.path.relpath(root_path, show_path) of the show's own folder.
ShowRoot == <<".">>

\* _parse_episode_info for the file's name, the folder of the file relative
\* to the show's folder, and the number of admitted videos in the show's
\* folder: [season, episode], episode None when no rule applies.
ParseEpisodeInfo(filename, rel_path, videos_in_root) ==
    LET match == Search(SeasonEpisodeAt, filename)
        season_match == Search(SeasonAt, rel_path)
        season_num == IF season_match.found THEN season_match.season ELSE 1
        ep_match == Search(EpisodeAt, filename)
    IN  IF match.found THEN [season |-> match.season, episode |-> match.episode]
        ELSE IF ep_match.found THEN [season |-> season_num, episode |-> ep_match.episode]
        ELSE IF rel_path = ShowRoot /\ videos_in_root = 1
             THEN [season |-> 1, episode |-> 1]
             ELSE [season |-> season_num, episode |-> None]

\* YEAR_REGEX = \(?(\d{4})\)? tried at the head of text: the length of the
\* match, 0 when there is none.
YearLength(text) ==
    LET open == IF text # << >> /\ text[1] = "(" /\ DigitsAt(text, 2, 4) = 4
                THEN 1 ELSE 0
        digits == DigitsAt(text, 1 + open, 4) = 4
        close == IF digits /\ 5 + open <= Len(text) /\ text[5 + open] = ")"
                 THEN 1 ELSE 0
    IN  IF digits THEN open + 4 + close ELSE 0

\* YEAR_REGEX.sub('', name)
RECURSIVE RemoveYears(_)
RemoveYears(text) ==
    IF text = << >> THEN << >>
    ELSE IF YearLength(text) > 0 THEN RemoveYears(From(text, YearLength(text) + 1))
    ELSE << Head(text) >> \o RemoveYears(Tail(text))

\* YEAR_REGEX.search(name): group 1 of the leftmost match as an int, None
\* when there is no match.
RECURSIVE YearOf(_)
YearOf(text) ==
    IF text = << >> THEN None
    ELSE IF YearLength(text) > 0
         THEN LET open == IF text[1] = "(" THEN 1 ELSE 0
              IN  IntOf(SubSeq(text, 1 + open, 4 + open))
         ELSE YearOf(Tail(text))

\* The release tags of _clean_name, in the order of the alternation.
ReleaseTags ==
    << <<"1", "0", "8", "0", "p">>, <<"7", "2", "0", "p">>,
       <<"b", "l", "u", "r", "a", "y">>, <<"w", "e", "b", "r", "i", "p">>,
       <<"h", "2", "6", "4">>, <<"x", "2", "6", "5">>, <<"a", "a", "c">> >>

\* \[.*?\]|\(.*?\)|1080p|...|aac tried at the head of text: the length of the
\* match, 0 when there is none.
TagLength(text) ==
    LET Bracket(open, close) ==
            IF text # << >> /\ text[1] = open /\ \E k \in 2..Len(text) : text[k] = close
            THEN CHOOSE k \in 2..Len(text) :
                     text[k] = close /\ \A j \in 2..(k - 1) : text[j] # close
            ELSE 0
    IN  IF Bracket("[", "]") > 0 THEN Bracket("[", "]")
        ELSE IF Bracket("(", ")") > 0 THEN Bracket("(", ")")
        ELSE Len(FirstLiteralAt(text, 1, ReleaseTags))

RECURSIVE RemoveTags(_)
RemoveTags(text) ==
    IF text = << >> THEN << >>
    ELSE IF TagLength(text) > 0 THEN RemoveTags(From(text, TagLength(text) + 1))
    ELSE << Head(text) >> \o RemoveTags(Tail(text))

\* name.replace('.', ' ').replace('_', ' ') and name.split(): the words.
RECURSIVE Split(_, _)
Split(text, word) ==
    IF text = << >> THEN (IF word = << >> THEN << >> ELSE << word >>)
    ELSE IF Head(text) \in {".", "_", " "}
         THEN (IF word = << >> THEN << >> ELSE << word >>) \o Split(Tail(text), << >>)
         ELSE Split(Tail(text), Append(word, Head(text)))

\* word.capitalize()
Capitalize(word) ==
    [k \in 1..Len(word) |-> IF k = 1 THEN Upper(word[k]) ELSE Lower(word[k])]

\* ' '.join(words)
RECURSIVE Join(_)
Join(words) ==
    IF words = << >> THEN << >>
    ELSE IF Len(words) = 1 THEN Head(words)
    ELSE Head(words) \o <<" ">> \o Join(Tail(words))

\* MediaScanner._clean_name
CleanName(name) ==
    LET words == Split(RemoveTags(RemoveYears(name)), << >>)
    IN  Join([k \in 1..Len(words) |-> Capitalize(words[k])])

\* The names explored: an episode file is an optional stem, a token and the
\* extension; a movie folder is title words, a year and release tags.
Stem == <<"F", "o", "o">>
Extension == <<".", "m", "k", "v">>
EpisodeTokens ==
    { [text |-> <<"S", "0", "1", "E", "0", "2">>, kind |-> "SxxEyy", season |-> 1, episode |-> 2],
      [text |-> <<"s", "2", "e", "1", "3">>, kind |-> "SxxEyy", season |-> 2, episode |-> 13],
      [text |-> <<"E", "0", "5">>, kind |-> "Eyy", season |-> 0, episode |-> 5],
      [text |-> <<"e", "p", "7">>, kind |-> "Eyy", season |-> 0, episode |-> 7],
      [text |-> <<"P", "i", "l", "o", "t">>, kind |-> "none", season |-> 0, episode |-> 0] }
FileStems == {<< >>, Stem \o <<".">>, Stem \o <<" ">>, Stem \o <<"_">>}
SeasonFolders ==
    { [text |-> ShowRoot, season |-> 1],
      [text |-> <<"S", "e", "a", "s", "o", "n", " ", "0", "2">>, season |-> 2],
      [text |-> <<"S", "3">>, season |-> 3],
      [text |-> <<"B", "o", "n", "u", "s">>, season |-> 1] }
VideosInRoot == {1, 2}

TitleWords == { << <<"M", "o", "v", "i", "e">>, <<"T", "i", "t", "l", "e">> >>, << <<"T", "h", "e">>, <<"M", "a", "t", "r", "i", "x">> >> }
YearTokens ==
    { [text |-> <<".", "2", "0", "1", "9">>, year |-> 2019], [text |-> <<" ", "(", "1", "9", "9", "9", ")">>, year |-> 1999] }
TagLists ==
    { << >>, <<".", "1", "0", "8", "0", "p", ".", "B", "l", "u", "R", "a", "y", ".", "x", "2", "6", "4">>, <<".", "7", "2", "0", "p", ".", "W", "E", "B", "R", "i", "p", ".", "x", "2", "6", "5">>, <<".", "[", "Y", "I", "F", "Y", "]">> }

\* root, files of os.walk(show_dir_path): the file is parsed and appended to
\* episodes unless its episode number is None.
ScanSeriesFile ==
    /\ scanner.call = "_scan_series" /\ ~scanner.done
    /\ LET info == ParseEpisodeInfo(scanner.filename, scanner.rel_path,
                                    scanner.videos_in_root)
       IN  scanner' = [scanner EXCEPT !.done = TRUE,
                                      !.season = info.season,
                                      !.episode = info.episode,
                                      !.appended = (info.episode # None)]
    /\ UNCHANGED <<storeVars, libraryVars, appVars, threads, legacy>>

\* The movie folder's entry: year from YEAR_REGEX, title from _clean_name.
ScanMovieFolder ==
    /\ scanner.call = "_scan_movies" /\ ~scanner.done
    /\ scanner' = [scanner EXCEPT !.done = TRUE,
                                  !.year = YearOf(scanner.movie_dir_name),
                                  !.title = CleanName(scanner.movie_dir_name)]
    /\ UNCHANGED <<storeVars, libraryVars, appVars, threads, legacy>>

InitScanner ==
    /\ db_file = NoFile
    /\ tmp_file = NoFile
    /\ pc = "idle"
    /\ frame = NoFrame
    /\ ret = NoRet
    /\ saved = [valid |-> FALSE, data |-> EmptyDict]
    /\ disk = {}
    /\ current_playlist = << >>
    /\ NoApp
    /\ threads = NoThreads
    /\ legacy = NoLegacy
    /\ \/ \E stem \in FileStems, token \in EpisodeTokens, folder \in SeasonFolders,
            videos_in_root \in VideosInRoot :
            scanner = [call |-> "_scan_series", done |-> FALSE,
                       filename |-> stem \o token.text \o Extension,
                       rel_path |-> folder.text,
                       videos_in_root |-> videos_in_root,
                       token |-> token, folder |-> folder,
                       season |-> 0, episode |-> 0, appended |-> FALSE]
       \/ \E words \in TitleWords, y \in YearTokens, tags \in TagLists :
            scanner = [call |-> "_scan_movies", done |-> FALSE,
                       movie_dir_name |-> words[1] \o <<".">> \o words[2]
                                          \o y.text \o tags,
                       words |-> words, year_token |-> y,
                       year |-> None, title |-> << >>]

NextScanner ==
    \/ ScanSeriesFile
    \/ ScanMovieFolder

SpecScanner == InitScanner /\ [][NextScanner]_vars

(***************************************************************************)
(* Claims about the catalog store, checked under SpecStore                 *)
(***************************************************************************)
Savers == {"save", "update", "scan"}

\* C1: at every step of a save (temp file opened, partly written, fully
\* written, renamed), and after a crash or an exception at any of them, the
\* canonical file holds either the complete content it had when the save
\* began or the complete new document, never a part of one: until the
\* rename it is the old content, after it the whole dump of the saved data.
C1_CanonicalNeverPartial ==
    /\ (InSave \/ pc = "crashed") => db_file = frame.pre
    /\ (pc = "idle" /\ ret.op \in Savers /\ ret.ok) =>
           (saved.valid /\ db_file = FileOf(Dump(saved.data)))
    /\ (pc = "idle" /\ ret.op \in Savers /\ ~ret.ok /\ saved.valid) =>
           db_file = FileOf(Dump(saved.data))

\* A crash with the temp file partly written, over an existing catalog.
C1_Witness ==
    /\ pc = "crashed"
    /\ db_file.exists
    /\ tmp_file.exists
    /\ Len(tmp_file.lines) > 0
    /\ Len(tmp_file.lines) < Len(Dump(frame.data))
    /\ db_file # FileOf(Dump(frame.data))

\* C2 as stated: when the write of the temp file or the rename raises, save
\* returns False, the '.tmp' sibling no longer exists afterwards and the
\* canonical file holds the content it held before the call.
C2_Original ==
    [][(pc = "save_except" /\ frame.raised_at \in {"write", "rename"} /\ pc' = "idle")
          => (/\ ret'.op \in Savers
              /\ ~ret'.ok
              /\ ~tmp_file'.exists
              /\ db_file' = frame.pre)]_vars

\* C2 amended: when the write of the temp file or the rename raises, save
\* returns False and the canonical file holds the content it held before the
\* call; the '.tmp' sibling no longer exists afterwards unless os.remove
\* raised in the cleanup, and then the temp file is left as it was.
C2_FailedSave ==
    [][(pc = "save_except" /\ frame.raised_at \in {"write", "rename"} /\ pc' = "idle")
          => (/\ ret'.op \in Savers
              /\ ~ret'.ok
              /\ db_file' = frame.pre
              /\ \/ ~tmp_file'.exists
                 \/ ret'.remove_raised /\ tmp_file' = tmp_file)]_vars

\* A save that failed after its rename raised, the temp file removed.
C2_Witness ==
    /\ pc = "idle"
    /\ ret.op = "save"
    /\ ~ret.ok
    /\ ret.raised_at = "rename"
    /\ ~ret.remove_raised
    /\ ~tmp_file.exists
    /\ db_file.exists

\* C3: a successful save(C) followed by load() with no write in between
\* returns a catalog equal to C (for every C the store is given, the
\* schema-valid ones among them).
C3_RoundTrip ==
    (pc = "idle" /\ ret.op = "load" /\ saved.valid) => ret.data = saved.data

\* A load after the save of a catalog with a movie and an episode in it.
C3_Witness ==
    /\ ret.op = "load"
    /\ saved.valid
    /\ saved.data # EmptyDict
    /\ "series" \in DOMAIN saved.data
    /\ saved.data.series # << >>
    /\ saved.data.movies # << >>
    /\ "resume_position" \in DOMAIN saved.data.movies[1]

\* The structural validation of the claim: the file parses, its root is a
\* mapping, and the movies and series collections are there.
StructurallyValid(file) ==
    /\ file.exists
    /\ ~SafeLoadRaises(file.lines)
    /\ LET d == SafeLoad(file.lines)
       IN  d # NoneDoc /\ d # ListRoot /\ {"movies", "series"} \subseteq DOMAIN d

PersistedEntries(file) ==
    LET d == Load(file).val
        movies == IF IsDict(d) THEN Get(d, "movies", << >>) ELSE << >>
        episodes == IF IsDict(d) THEN AllEpisodes(d) ELSE << >>
    IN  {movies[i] : i \in 1..Len(movies)} \cup {episodes[i] : i \in 1..Len(episodes)}

PersistedPaths(file) ==
    {e.filepath : e \in {x \in PersistedEntries(file) : "filepath" \in DOMAIN x}}

\* C5: update_item_status(path, ...) returns False when no movie and no
\* episode of the persisted catalog has that path, and then performs no save:
\* the catalog file and the temp file are left as they were.
C5_UpdateNotFound ==
    [][(/\ pc = "idle"
        /\ ret'.op = "update" \/ frame'.caller = "update"
        /\ (IF ret'.op = "update" THEN ret'.path ELSE frame'.path)
               \notin PersistedPaths(db_file))
          => (/\ ret'.op = "update"
              /\ ~ret'.ok
              /\ pc' = "idle"
              /\ db_file' = db_file
              /\ tmp_file' = tmp_file)]_vars

\* An update for a path that a catalog with other entries does not hold.
C5_Witness ==
    /\ pc = "idle"
    /\ ret.op = "update"
    /\ ret.path = GonePath
    /\ ~ret.ok
    /\ PersistedPaths(db_file) # {}

(***************************************************************************)
(* Claims about the playlist selector and the scanner, checked under       *)
(* SpecLibrary.                                                            *)
(***************************************************************************)
BuiltPlaylist == pc = "idle" /\ ret.op = "create_playlist" /\ ~ret.raised

\* The positions of the returned playlist that hold path p.
Listed(p) == {i \in 1..Len(ret.data) : ret.data[i].filepath = p}

Earlier(a, b) ==
    \/ a.season < b.season
    \/ a.season = b.season /\ a.episode < b.episode

\* The entry the persisted catalog holds for path p.
Entry(file, p) ==
    CHOOSE e \in PersistedEntries(file) : "filepath" \in DOMAIN e /\ e.filepath = p

\* The files of the volume the scanner makes entries of.
Found == {p \in disk : FileInfo(p).video /\ FileInfo(p).match}

ScanPersists ==
    pc = "save_rename" /\ frame.caller = "scan" /\ pc' = "idle" /\ ret'.ok

\* C7: the playlist create_playlist returns holds each Unseen movie of the
\* catalog exactly once, for each series exactly once the Unseen episode with
\* the smallest (season, episode), and nothing else: no Seen entry, no later
\* episode, no item that is not in the catalog, whatever order the shuffle
\* gives.
C7_PlaylistIsEligibleSet ==
    BuiltPlaylist =>
        LET db == Load(db_file).val
            movies == Get(db, "movies", << >>)
            series == Get(db, "series", << >>)
        IN  /\ \A i \in 1..Len(movies) :
                  Cardinality(Listed(movies[i].filepath))
                      = IF movies[i].status = "Unseen" THEN 1 ELSE 0
            /\ \A s \in 1..Len(series) :
                  LET eps == series[s].episodes
                  IN  \A i \in 1..Len(eps) :
                         Cardinality(Listed(eps[i].filepath))
                             = IF /\ eps[i].status = "Unseen"
                                  /\ \A j \in 1..Len(eps) :
                                        eps[j].status = "Unseen" => ~Earlier(eps[j], eps[i])
                               THEN 1 ELSE 0
            /\ \A i \in 1..Len(ret.data) :
                  ret.data[i].filepath \in PersistedPaths(db_file)

\* A playlist of the Unseen movie and of episode 1, built from a catalog that
\* lists the also Unseen episode 2 before episode 1.
C7_Witness ==
    /\ BuiltPlaylist
    /\ Listed(MoviePath(1)) # {}
    /\ Listed(EpisodePath(1)) # {}
    /\ EpisodePath(2) \in PersistedPaths(db_file)
    /\ Entry(db_file, EpisodePath(2)).status = "Unseen"
    /\ \E s \in 1..Len(Load(db_file).val.series) :
          Load(db_file).val.series[s].episodes[1].filepath = EpisodePath(2)

\* C8: an episode is in a built playlist only if every episode of its series
\* with a smaller (season, episode) is Seen in the catalog the playlist was
\* built from; the episodes of other series do not matter.
C8_InOrderViewing ==
    BuiltPlaylist =>
        LET series == Get(Load(db_file).val, "series", << >>)
        IN  \A s \in 1..Len(series) :
               LET eps == series[s].episodes
               IN  \A i, j \in 1..Len(eps) :
                      (Listed(eps[i].filepath) # {} /\ Earlier(eps[j], eps[i]))
                          => eps[j].status = "Seen"

\* Episode 2 is in a playlist built once episode 1 is Seen.
C8_Witness ==
    /\ BuiltPlaylist
    /\ Listed(EpisodePath(2)) # {}
    /\ EpisodePath(1) \in PersistedPaths(db_file)
    /\ Entry(db_file, EpisodePath(1)).status = "Seen"

\* C9: when a scan persists its catalog, every path of the catalog it
\* loaded that it found again on the volume has the status and the resume
\* position it had in the loaded catalog.
C9_ScanKeepsStatus ==
    [][ScanPersists =>
          \A p \in PersistedPaths(db_file) \cap Found :
             /\ p \in PersistedPaths(db_file')
             /\ Entry(db_file', p).status = Entry(db_file, p).status
             /\ Entry(db_file', p).resume_position = Entry(db_file, p).resume_position]_vars

\* A scan has persisted a catalog in which the movie is still Seen and the
\* episode still has its resume position.
C9_Witness ==
    /\ pc = "idle" /\ ret.op = "scan" /\ ret.ok
    /\ MoviePath(1) \in PersistedPaths(db_file)
    /\ Entry(db_file, MoviePath(1)).status = "Seen"
    /\ EpisodePath(1) \in PersistedPaths(db_file)
    /\ Entry(db_file, EpisodePath(1)).resume_position = MaxResume

PersistedList(file) ==
    LET d == Load(file).val
    IN  IF IsDict(d) THEN Get(d, "movies", << >>) \o AllEpisodes(d) ELSE << >>

\* C30: no two entries of the persisted catalog, movies or episodes of any
\* series, have the same file path, whatever scans and status updates ran.
C30_UniquePaths ==
    LET entries == PersistedList(db_file)
    IN  \A i, j \in 1..Len(entries) :
            entries[i].filepath = entries[j].filepath => i = j

\* A persisted catalog of a movie and two episodes or more, written by a scan
\* that ran after an update had set an entry to Seen.
C30_Witness ==
    LET entries == PersistedList(db_file)
    IN  /\ ret.op = "scan" /\ ret.ok
        /\ Len(entries) >= 3
        /\ \E i \in 1..Len(entries) : entries[i].status = "Seen"

(***************************************************************************)
(* Claims about the viewing session, checked under SpecSession.            *)
(***************************************************************************)
\* C6: in the persisted catalog every entry whose status is Seen has no
\* resume position left: playback would start it at 0.
C6_SeenHasNoResume ==
    \A e \in PersistedEntries(db_file) :
        Get(e, "status", "None") = "Seen" => StartPos(e) = 0

\* C11: when a scan persists its catalog, the paths of the persisted catalog
\* are exactly the video files on the volume that the scanner's patterns
\* classify: a path of the loaded catalog whose file is gone is dropped, a
\* file that was not in it is added.
C11_ScanMirrorsVolume ==
    [][ScanPersists => PersistedPaths(db_file') = Found]_vars

\* A scan is about to persist a catalog that drops a path whose file is gone
\* and adds a file that was not in the catalog.
C11_Witness ==
    /\ pc = "save_rename" /\ frame.caller = "scan"
    /\ PersistedPaths(db_file) \ Found # {}
    /\ Found \ PersistedPaths(db_file) # {}
    /\ PersistedPaths(FileOf(Dump(frame.data))) = Found

\* C12: a scan that runs right after a scan that persisted its catalog, on
\* the same files, persists a catalog with the same paths and, for every
\* path, the same status and resume position.
C12_RescanIdempotent ==
    [][(ScanPersists /\ frame.rescan) =>
          /\ PersistedPaths(db_file') = PersistedPaths(db_file)
          /\ \A p \in PersistedPaths(db_file) :
                /\ Entry(db_file', p).status = Entry(db_file, p).status
                /\ Entry(db_file', p).resume_position
                       = Entry(db_file, p).resume_position]_vars

\* The second of two scans in a row is about to persist its catalog, with the
\* files listed in another order than the first scan wrote them.
C12_Witness ==
    /\ pc = "save_rename" /\ frame.caller = "scan" /\ frame.rescan
    /\ PersistedPaths(db_file) # {}
    /\ frame.data # Load(db_file).val

(***************************************************************************)
(* Claims about the orchestrator, checked under SpecApp                    *)
(***************************************************************************)
\* The playlist item the index stands at is the item that was started.
AtCurrentItem ==
    /\ app.current_index < Len(current_playlist)
    /\ current_playlist[app.current_index + 1] = app.current_item

\* C13: when the volume is disconnected during the playback of an item and
\* the engine gives the item up, the item has stopped and current_index
\* keeps the value it had when the item started.
C13_DisconnectKeepsIndex ==
    player.aborted => (~player.is_playing /\ AtCurrentItem)

\* C15: when the orchestrator has left an item that played to its natural
\* end of file and the status update succeeded, the item's persisted status
\* is Seen and its resume position is cleared.
C15_FinishedIsSeen ==
    (/\ app.at = "left" /\ pc = "idle" /\ player.eof_reached
     /\ ret.op = "update" /\ ret.ok /\ ret.path = app.current_item.filepath)
    => /\ Entry(db_file, ret.path).status = "Seen"
       /\ Entry(db_file, ret.path).resume_position = None

\* C16: when the orchestrator has left an item through an interrupting action
\* at a position above 0 and below 95% of the duration and the status update
\* succeeded, that position is the item's persisted resume position.
C16_InterruptedKeepsPosition ==
    (/\ app.at = "left" /\ pc = "idle" /\ app.playback_interrupted
     /\ ret.op = "update" /\ ret.ok /\ ret.path = app.current_item.filepath
     /\ player.time_pos > 0 /\ 100 * player.time_pos < 95 * Duration)
    => Entry(db_file, ret.path).resume_position = player.time_pos

\* A play request is issued: start_playback calls player_controller.play.
PlayRequest == app.at = "item" /\ app'.at = "playing"

\* An action was got from the queue and handled in this step.
Handled == input'.handled # input.handled

\* C21: while the guide is visible, handling toggle_pause, restart,
\* volume_up, volume_down, toggle_mute or mark_seen changes neither the
\* engine's state (pause, position, volume), nor current_index, nor the
\* catalog, and begins no write of it.
C21_GuideAbsorbsControls ==
    [][(Handled /\ app.is_guide_visible /\ QueueGet(input.queue).item.action \in Controls)
       => /\ player' = player
          /\ app'.current_index = app.current_index
          /\ db_file' = db_file /\ tmp_file' = tmp_file /\ pc' = "idle"]_vars

\* A playback control was the last action handled, with the guide visible.
C21_Witness ==
    app.is_guide_visible /\ input.action \in Controls /\ player.is_playing

\* The orchestrator is between an interrupted item and the next play request.
Jumping ==
    \/ app.at = "item"
    \/ app.at \in {"leave", "left"} /\ app.playback_interrupted

\* C22: when 'select' is handled with the guide visible and selection index
\* k, the item is stopped, current_index becomes k, the guide is hidden and
\* playback is interrupted; the index then stays as it is up to the next play
\* request, and a play request is for the playlist item at the index.
C22_SelectJumps ==
    [][/\ (Handled /\ app.is_guide_visible
           /\ QueueGet(input.queue).item.action = "select")
          => /\ ~player'.is_playing
             /\ app'.current_index = app.guide_selection_index
             /\ ~app'.is_guide_visible
             /\ app'.at = "leave" /\ app'.playback_interrupted
       /\ Jumping => app'.current_index = app.current_index
       /\ PlayRequest => app'.current_item = current_playlist[app.current_index + 1]]_vars

\* The guide was opened, its selection moved to item 1 and selected, and the
\* play request after it was for item 1.
C22_Witness ==
    /\ input.action = "select" /\ app.guide_selection_index = 1
    /\ ~app.is_guide_visible
    /\ app.at = "playing" /\ player.is_playing
    /\ app.current_index = 1 /\ app.current_item = current_playlist[2]

\* C14: whenever the volume is not connected when an item is about to start,
\* the orchestrator's step issues no play request, leaves current_index as it
\* is, writes nothing to the catalog and leaves the playback loop; its next
\* step from there sets WaitingForMedia.
C14_PreItemVolumeCheck ==
    [][/\ (app.at = "item" /\ HasItem /\ ~drive /\ app' # app
           /\ app'.state # "shutting_down")
          => /\ app'.at = "loop" /\ app'.running
             /\ ~player'.is_playing
             /\ app'.current_index = app.current_index
             /\ db_file' = db_file /\ tmp_file' = tmp_file /\ pc' = "idle"
       /\ (app.at = "loop" /\ app.running /\ app' # app
           /\ app'.state # "shutting_down")
          => (app'.at = "waiting" /\ app'.state = "waiting_for_media")]_vars

\* The pre-item check has just failed on an item of the playlist.
C14_Witness ==
    /\ app.at = "loop" /\ app.running /\ ~drive
    /\ app.current_index < Len(current_playlist)

\* The state changes of the application state machine.
StateChanges ==
    {<<"starting", "waiting_for_media">>, <<"waiting_for_media", "initializing">>,
     <<"initializing", "playing">>, <<"initializing", "waiting_for_media">>,
     <<"playing", "waiting_for_media">>}

\* C17: the state only changes along the state machine's arrows or to
\* ShuttingDown, and a play request is issued only in state Playing.
C17_StateMachine ==
    [][/\ app'.state # app.state
          => (app'.state = "shutting_down" \/ <<app.state, app'.state>> \in StateChanges)
       /\ PlayRequest => app.state = "playing"]_vars

\* C18: when the process is over, after a termination signal or after a
\* 'shutdown' action was handled, the state is ShuttingDown; and once the
\* state is ShuttingDown it never changes.
C18_ShuttingDownReached ==
    [][/\ app'.at = "exited" => app'.state = "shutting_down"
       /\ app.state = "shutting_down" => app'.state = "shutting_down"]_vars

\* A 'shutdown' action is on the input queue.
ShutdownQueued ==
    \E i \in 1..Len(input.queue) : input.queue[i].action = "shutdown"

\* C19: with no volume ever connected, a 'shutdown' action produced while
\* the orchestrator polls for a volume leads to the end of the process.
C19_ShutdownEndsWaiting ==
    (app.at = "waiting" /\ ShutdownQueued) ~> (app.at = "exited")

\* C20: the actions are handled in the order they were put on the queue and
\* none twice: the number of the action handled grows with every action
\* handled.
C20_HandledInOrder ==
    [][input'.handled # input.handled => input'.handled > input.handled]_vars

\* Two actions were put on the queue and both were handled.
C20_Witness ==
    input.handled >= 2 /\ input.queue = << >>

\* C23: when an Initializing phase is about to begin, no engine instance
\* created before it is still alive.
C23_EnginesTerminated ==
    app.at = "initializing" => player.alive = {}

C26_EmptyPlaylist ==
    [][/\ (app.at = "initialized" /\ pc = "idle" /\ ret.op = "initialize"
           /\ current_playlist = << >>
           /\ app' # app /\ app'.state # "shutting_down")
          => /\ ~ret.ok
             /\ player'.alive = player.alive /\ ~player'.is_playing
             /\ app'.at = "loop" /\ app'.running
       /\ (app.at = "loop" /\ app.running /\ ~ret.ok /\ app' # app
           /\ app'.state # "shutting_down")
          => app'.state = "waiting_for_media"]_vars

\* A catalog with entries and nothing Unseen gave an empty playlist, and the
\* orchestrator is waiting for media again.
C26_Witness ==
    /\ app.at = "waiting" /\ app.running
    /\ ret.op = "initialize" /\ ~ret.ok
    /\ current_playlist = << >>
    /\ PersistedPaths(db_file) # {}

\* C25: two update_item_status calls of two threads on different paths never
\* are inside their load-modify-save sequences at the same time, and when
\* both have returned True the persisted catalog holds both updates.
C25_UpdatesSerialized ==
    /\ \A t, u \in DOMAIN threads.call : (InCall(t) /\ InCall(u)) => t = u
    /\ (\A t \in DOMAIN threads.call :
            threads.call[t].pc = "done" /\ threads.call[t].ok)
       => \A t \in DOMAIN threads.call :
             LET c == threads.call[t]
             IN  /\ Entry(db_file, c.filepath).status = c.status
                 /\ c.resume_position # None
                    => Entry(db_file, c.filepath).resume_position = c.resume_position

\* Both threads have returned True, each having set its item to Seen with a
\* resume position.
C25_Witness ==
    /\ DOMAIN threads.call = Threads
    /\ \A t \in Threads :
          /\ threads.call[t].pc = "done" /\ threads.call[t].ok
          /\ threads.call[t].status = "Seen"
          /\ threads.call[t].resume_position # None

\* initialize_media_components computes the playlist and returns True: right
\* after the load when no scan is needed, or after the scan and its load.
BuildsPlaylist ==
    /\ \/ pc = "idle" /\ pc' = "idle"
       \/ pc = "initialize_load"
    /\ disk' = disk
    /\ ret'.op = "initialize" /\ ret'.ok

\* C27: when the playlist is computed, the catalog it is computed from holds
\* exactly the video files now on the volume: a catalog that is not empty but
\* differs from the volume has been merged by a scanner run before.
C27_StaleCatalogScanned ==
    [][BuildsPlaylist => PersistedPaths(db_file') = Found]_vars

\* update_media_status is called for the item in this step: its
\* update_item_status returns at once or enters its save.
UpdateCalled(item) ==
    \/ pc' = "idle" /\ ret'.op = "update" /\ ret'.path = item.filepath
    \/ pc' # "idle" /\ frame'.caller = "update" /\ frame'.path = item.filepath

\* _signal_handler runs in this step.
Signalled == app'.state = "shutting_down" /\ app' # app

\* C33: from the play request for an item until update_media_status has been
\* called for that item, the orchestrator issues no other play request and
\* cleans nothing up: while the item plays it stays the current item with
\* the engines it has, and once the playback loop has returned (natural end
\* or terminating action) the orchestrator's next step is the update for it.
C33_PersistBeforeAdvancing ==
    [][~Signalled
         => /\ app.at = "playing"
                => /\ app'.at \in {"playing", "leave"}
                   /\ app'.current_item = app.current_item
                   /\ player'.alive = player.alive
            /\ app.at = "leave"
                => \/ /\ app'.at = "leave"
                      /\ app'.current_item = app.current_item
                      /\ player'.alive = player.alive
                   \/ /\ app'.at = "left"
                      /\ UpdateCalled(app.current_item)]_vars

\* An item that ended by itself has been updated and the next play request
\* is not issued yet.
C33_Witness ==
    /\ app.at = "left" /\ ~app.playback_interrupted /\ player.eof_reached
    /\ pc = "idle" /\ ret.op = "update" /\ ret.path = app.current_item.filepath

(***************************************************************************)
(* Claims about failing play requests, checked under SpecEngine            *)
(***************************************************************************)
\* The play request for the current item returned False.
FailedItem == app.at \in {"playing", "leave", "left"} /\ ~player.played

\* The persisted catalog holds the path with status Seen.
Marked(file, path) ==
    \E e \in PersistedEntries(file) :
        "filepath" \in DOMAIN e /\ e.filepath = path /\ e.status = "Seen"

\* C34: when a play request fails (file missing, engine unavailable or
\* crashed, play raising) nothing plays; the playback loop ends at once as
\* not interrupted, no step marks the failed item Seen, current_index moves
\* to the next item, and from there the orchestrator plays the next item or
\* goes through the run loop to WaitingForMedia or to its exit.
C34_FailedPlayAdvances ==
    [][~Signalled
         => /\ (PlayRequest /\ ~player'.played) => ~player'.is_playing
            /\ FailedItem
                => /\ Marked(db_file', app.current_item.filepath)
                       => Marked(db_file, app.current_item.filepath)
                   /\ app.at = "playing"
                       => \/ app' = app
                          \/ /\ app'.at = "leave"
                             /\ ~app'.playback_interrupted
                             /\ app'.current_index = app.current_index
                   /\ app.at = "leave" => app' = app \/ app'.at = "left"
                   /\ app.at = "left"
                       => \/ app' = app
                          \/ /\ app'.at = "item"
                             /\ app'.current_index = app.current_index + 1
            /\ app.at = "item" => app'.at \in {"item", "playing", "loop"}
            /\ app.at = "loop"
                => /\ app'.at \in {"loop", "waiting", "exited"}
                   /\ app'.at = "waiting" => app'.state = "waiting_for_media"]_vars

\* The first item's file was missing, its play request failed and the
\* orchestrator stands before the second item.
C34_Witness ==
    /\ app.at = "item" /\ app.current_index = 1 /\ Len(current_playlist) = 2
    /\ ~player.played
    /\ app.current_item = current_playlist[1]
    /\ app.current_item.filepath \notin disk
    /\ ~Marked(db_file, app.current_item.filepath)

\* C36: an item whose persisted status is Seen keeps that status in every
\* later step of the run, in particular when the orchestrator leaves the
\* item it marked seen.
C36_MarkSeenDurable ==
    [][LET before == PersistedEntries(db_file)
           after == PersistedEntries(db_file')
       IN  \A e \in before :
               ("filepath" \in DOMAIN e /\ e.status = "Seen")
               => \E f \in after :
                      /\ "filepath" \in DOMAIN f
                      /\ f.filepath = e.filepath
                      /\ f.status = "Seen"]_vars

\* C37: the first play request after start_playback has begun, the first of
\* the playlist initialize_media_components has just built, is for playlist
\* item 0.
C37_PlaylistFromFirstItem ==
    [][(PlayRequest /\ ~player.played)
         => /\ app.current_index = 0
            /\ app'.current_item = current_playlist[1]]_vars

\* C38: in every reachable state current_index is at least 0 and at most
\* len(current_playlist).
C38_IndexInRange ==
    /\ 0 <= app.current_index
    /\ app.current_index <= Len(current_playlist)

\* C39: when a 'show_guide' action is handled while the guide is visible,
\* the guide is hidden again.
C39_ShowGuideDismisses ==
    [][(Handled /\ input'.action = "show_guide" /\ app.is_guide_visible)
         => ~app'.is_guide_visible]_vars

(***************************************************************************)
(* Claims about the engine's notifications, checked under SpecCallbacks    *)
(***************************************************************************)
\* stop_playback has stopped the engine, or _eof_handler has been called
\* for the file the engine holds, and is_playing is false.
StoppedOrEnded == (player.core = "idle" \/ player.eof_reached) /\ ~IsPlaying

\* C40: once stop_playback or the end-of-file notification has made
\* is_playing false, it becomes true again by a call of play() only, and by
\* no notification of the engine.
C40_StopNotUndone ==
    [][(StoppedOrEnded /\ IsPlaying') => player' = PlayStarts]_vars

(***************************************************************************)
(* Claims about the shutdown action, checked under SpecShutdown            *)
(***************************************************************************)
\* The action got from the queue last, and handled, is 'shutdown'.
ShutdownHandled == input.handled > 0 /\ input.action = "shutdown"

\* run() is over: the engine that played is terminated and the listener of
\* the input handler is stopped.
Down ==
    /\ app.at = "exited"
    /\ ~app.running
    /\ "start_playback" \notin player.alive
    /\ ~player.is_playing
    /\ ~input.listening

Rejected(file) ==
    /\ file.exists
    /\ \/ file.text.kind = "garbage"
       \/ /\ Truthy(LegacyLoad(file))
          /\ ~IsValid(LegacyLoad(file)).raises
          /\ ~IsValid(LegacyLoad(file)).val

\* Two files hold the same content: the same document, or both the same
\* text that is not YAML.
SameContent(a, b) ==
    /\ a.exists /\ b.exists
    /\ a.text.kind = b.text.kind
    /\ a.text.kind = "yaml" => a.text.doc = b.text.doc

\* C28: whenever load_and_validate overwrites a catalog file it rejected
\* (unparseable or failing validation), a '.backup' sibling with the rejected
\* file's content exists before that write.
C28_BackupBeforeOverwrite ==
    [][(legacy'.db_path # legacy.db_path /\ Rejected(legacy.db_path))
          => SameContent(legacy.backup_path, legacy.db_path)]_vars

\* The entries of a collection, whether it is a mapping or a list.
EntriesOf(collection) ==
    IF IsInstanceDict(collection)
    THEN {collection.items[t] : t \in DOMAIN collection.items}
    ELSE {collection.items[n] : n \in DOMAIN collection.items}

\* The document the validation is described to accept.
Accepted(data) ==
    /\ IsInstanceDict(data)
    /\ In("movies", data) /\ In("tv_shows", data)
    /\ \A e \in EntriesOf(data.items["tv_shows"]) :
          IsInstanceDict(e) /\ In("seasons", e)
    /\ \A e \in EntriesOf(data.items["movies"]) :
          IsInstanceDict(e) /\ In("filepath", e)

\* C29: _is_valid returns a boolean for every loaded document without
\* raising: True exactly when the root is a mapping with a movies and a
\* tv_shows collection, every series entry has its seasons collection and
\* every movie entry has a filepath; False otherwise.
C29_ValidationTotal ==
    legacy.valid.called
        => /\ ~legacy.valid.raises
           /\ legacy.valid.val = Accepted(legacy.data)

(***************************************************************************)
(* Claims about pondtv/media_scanner.py, checked under SpecScanner         *)
(***************************************************************************)
\* C31: the rules are tried in order: an SxxEyy token in the filename gives
\* season and episode whatever the folder; otherwise the season is the season
\* token of the folder (1 if absent) and the episode the E/EP token of the
\* filename; otherwise the only admitted video of the show's folder is
\* season 1 episode 1; a file matching no rule is left out of the catalog.
C31_ClassificationOrder ==
    (scanner.call = "_scan_series" /\ scanner.done)
        => IF scanner.token.kind = "SxxEyy"
           THEN /\ scanner.appended
                /\ scanner.season = scanner.token.season
                /\ scanner.episode = scanner.token.episode
           ELSE IF scanner.token.kind = "Eyy"
           THEN /\ scanner.appended
                /\ scanner.season = scanner.folder.season
                /\ scanner.episode = scanner.token.episode
           ELSE IF scanner.rel_path = ShowRoot /\ scanner.videos_in_root = 1
           THEN scanner.appended /\ scanner.season = 1 /\ scanner.episode = 1
           ELSE ~scanner.appended

\* C32: the movie folder's title is its title words, title-cased and joined
\* by single spaces, and its year the year token: the year token, the
\* bracketed tags and the quality and codec tokens are removed;
\* Movie.Title.2019.1080p.BluRay.x264 gives "Movie Title" and 2019.
C32_TitleAndYear ==
    (scanner.call = "_scan_movies" /\ scanner.done)
        => /\ scanner.title = Join(scanner.words)
           /\ scanner.year = scanner.year_token.year

====
